---- MODULE Spec2Model ----
(***************************************************************************)
(* Logic-Filter: the multi-stage prompt pipeline (run_full_pipeline) and   *)
(* the retry/fallback engine (retry_with_fallback) of                      *)
(* processing_functions.py.                                                *)
(*                                                                         *)
(* A text is a sequence of tokens.  A token is a whitespace character, a   *)
(* word, or a whole model identifier; a Python string equal to a model     *)
(* identifier is the one-token text holding that identifier.               *)
(*                                                                         *)
(* A step of the model is one answer of the chat gateway (a response or an *)
(* exception) followed by all the code that runs until the next gateway    *)
(* call is issued or the call returns or raises.                           *)
(***************************************************************************)
EXTENDS Integers, Sequences, FiniteSets, TLC

VARIABLES
    pc,              \* "ready" | "engine_ready" | "chat" | "returned" | "raised"
    prompt,          \* run_full_pipeline: the prompt argument
    mode,            \* run_full_pipeline: the local variable mode
    results,         \* run_full_pipeline: the results dict
    events,          \* what the progress callback has received, in order
    stage,           \* results key of the stage being executed ("" if none)
    eng,             \* retry_with_fallback: its local variables
    reqs,            \* gateway requests issued by the attempt in progress
    improved,        \* comprehensive_review: the local variable improved
    refl,            \* boost mode: the locals of safe_generate and generate_with_reflection
    attempts,        \* finished attempts of the engine invocation in progress
    called,          \* stages that have issued at least one gateway request
    raised,          \* the exception that left the outermost call, or NoError
    retval,          \* the value the outermost call has returned (NoneVal: none)
    response,        \* content of the gateway's latest response (NoneVal: none, or it raised)
    FALLBACK_ORDER,  \* config.FALLBACK_ORDER as loaded at process start
    mode_arg,        \* run_full_pipeline: the mode argument as passed
    text,            \* sanitize_output: the text first handed to it
    shown,           \* sanitize_output: the texts it returned, one per application
    ollama_ready,    \* OllamaServiceManager.ollama_ready
    ollama_module,   \* OllamaServiceManager.ollama_module
    ollama_installed,\* whether "import ollama" finds the client library
    gw,              \* per calling thread: where it is in OllamaServiceManager.chat
    probes,          \* health probes sent to the service
    connected,       \* "Ollama service ready" notifications given to the status bar
    forwarded,       \* chat calls handed to the client library
    gui,             \* main.py: app_state.is_processing, the run_processing threads, the loading indicator
    solver,          \* problemsolved.py: solution_cache and the locals of solve_problem
    timer,           \* OllamaServiceManager.check_service_status: the periodic check
    cb_raises,       \* the phase at which progress_cb raises when called ("": at none)
    unknown_keys,    \* keys of the stage models that config.OLLAMA_MODELS, as loaded, lacks
    http_request,    \* api.process_prompt: the body of the POST being served
    handler,         \* api.process_prompt: its position and local variables
    http_reply,      \* api.process_prompt: the status and body it answered
    history,         \* ProcessingHistory.history
    current_index,   \* ProcessingHistory.current_index
    max_history,     \* ProcessingHistory.max_history
    added,           \* calls of ProcessingHistory.add so far (the clock of the timestamps)
    last_call        \* the latest call on the ProcessingHistory and what it returned

vars == <<pc, prompt, mode, results, events, stage, eng, reqs, improved, refl,
          attempts, called, raised, retval, response, FALLBACK_ORDER,
          mode_arg, text, shown, ollama_ready, ollama_module, ollama_installed,
          gw, probes, connected, forwarded, timer, gui, solver, cb_raises, unknown_keys, http_request,
          handler,
          http_reply,
          history, current_index, max_history, added, last_call>>

SanVars == <<text, shown>>
GatewayVars == <<ollama_ready, ollama_module, ollama_installed, gw, probes,
                 connected, forwarded, timer>>

ApiVars == <<http_request, handler, http_reply>>
HistoryVars == <<history, current_index, max_history, added, last_call>>

\* the state outside processing_functions.py
ScriptVars == <<gui, solver>>
OutsideVars == <<SanVars, GatewayVars, ApiVars, HistoryVars, ScriptVars>>

----------------------------------------------------------------------------
(* Texts *)

WS == " "
NL == "\n"
EmptyText == <<>>
BlankText == <<WS, NL>>
PlainText == <<"p">>
AnswerText == <<"a">>

\* the sentinel the presenter is asked to start its response with
MARKER == "PRESENT TO USER:"
MarkedText == <<MARKER, WS, "a">>

IsSpace(tok) == tok \in {WS, NL}

RECURSIVE lstrip(_)
lstrip(t) == IF t = <<>> THEN t
             ELSE IF IsSpace(Head(t)) THEN lstrip(Tail(t)) ELSE t

RECURSIVE rstrip(_)
rstrip(t) == IF t = <<>> THEN t
             ELSE IF IsSpace(t[Len(t)]) THEN rstrip(SubSeq(t, 1, Len(t) - 1)) ELSE t

strip(t) == rstrip(lstrip(t))

\* Python truthiness of a str
Truthy(t) == Len(t) > 0

NoneVal == <<"<None>">>

----------------------------------------------------------------------------
(* Model registry: config.py *)

LLAMA == <<"llama3.2:latest">>
OLMO == <<"olmo2:13b">>
DEEPSEEK == <<"deepseek-r1">>
DEEPSEEK14 == <<"deepseek-r1:14b">>
PHI4 == <<"phi4:latest">>
MISTRAL == <<"mistral:latest">>

OLLAMA_MODELS ==
    [analysis |-> LLAMA, generation |-> OLMO, vetting |-> DEEPSEEK,
     finalization |-> DEEPSEEK14, enhancement |-> PHI4,
     comprehensive |-> PHI4, presenter |-> DEEPSEEK14]

ModelValues == {OLLAMA_MODELS[k] : k \in DOMAIN OLLAMA_MODELS}

DefaultFallbackOrder ==
    (LLAMA :> <<DEEPSEEK, PHI4>>) @@
    (OLMO :> <<DEEPSEEK14, PHI4>>) @@
    (DEEPSEEK :> <<PHI4, LLAMA>>) @@
    (DEEPSEEK14 :> <<PHI4, DEEPSEEK>>) @@
    (PHI4 :> <<DEEPSEEK14, LLAMA>>)

\* A LOGIC_FILTER_FALLBACK_JSON that leaves models without a chain
SparseFallbackOrder ==
    (DEEPSEEK :> <<PHI4>>) @@
    (PHI4 :> <<DEEPSEEK14, LLAMA>>)

FallbackConfigs == {DefaultFallbackOrder, SparseFallbackOrder}

\* FALLBACK_ORDER.get(model_name, [])
FallbackChain(order, model_name) ==
    IF model_name \in DOMAIN order THEN order[model_name] ELSE <<>>

PROGRESS_MESSAGES ==
    [start |-> "Processing prompt...\n",
     analyzing |-> "Phase 1/6: Analysis\n",
     analysis_done |-> "Analysis complete.\n\n",
     generating |-> "Phase 2/6: Generation\n",
     generation_done |-> "Generation complete.\n\n",
     vetting |-> "Phase 3/6: Vetting\n",
     vetting_done |-> "Vetting complete.\n\n",
     finalizing |-> "Phase 4/6: Finalization\n",
     finalize_done |-> "Finalization complete.\n\n",
     enhancing |-> "Phase 5/6: Enhancement\n",
     enhance_done |-> "Enhancement complete.\n\n",
     comprehensive |-> "Phase 6/6: Review\n",
     complete |-> "Process complete.\n\n"]

----------------------------------------------------------------------------
(* Errors *)

NoError == [cls |-> "None", msg |-> "", cause |-> ""]

\* What the gateway call can raise: str(e) of the transport error
ErrKinds == {"connection", "timeout"}

PromptIsEmpty == [cls |-> "ValueError", msg |-> "Prompt is empty", cause |-> ""]
NoModelArgument == [cls |-> "ValueError", msg |-> "No model argument found", cause |-> ""]
AllModelsFailed == [cls |-> "Exception", msg |-> "All models failed", cause |-> ""]

----------------------------------------------------------------------------
(* Stage functions: what each sends to the gateway and how it fails *)

StageFuncs == {"analyze_prompt", "generate_solutions", "vet_and_refine",
               "finalize_prompt", "enhance_prompt", "comprehensive_review",
               "solve_problem", "verify_answer"}

\* number of positional parameters, the model name being the last
Arity(func) ==
    CASE func = "comprehensive_review" -> 7
      [] func \in {"finalize_prompt", "verify_answer"} -> 3
      [] OTHER -> 2

\* number of gateway calls of one successful execution
CallsOf(func) == IF func = "comprehensive_review" THEN 2 ELSE 1

\* the prefix of the OllamaError the function's except clause raises
FailPrefix(func) ==
    CASE func = "analyze_prompt" -> "Analysis failed"
      [] func = "generate_solutions" -> "Solution generation failed"
      [] func = "vet_and_refine" -> "Vetting failed"
      [] func = "finalize_prompt" -> "Finalization failed"
      [] func = "enhance_prompt" -> "Enhancement failed"
      [] func = "comprehensive_review" -> "Comprehensive review failed"
      [] func = "solve_problem" -> "Solve failed"
      [] func = "verify_answer" -> "Verify failed"

\* Variant: comprehensive_review returns its draft instead of the presenter's text
StageReturnDraft(func, content, imp) ==
    IF func = "comprehensive_review" THEN imp ELSE content

\* return response["message"]["content"], of the function's last gateway call
StageReturn(func, content, imp) == content

\* Variant: every stage function reports the failure as the analysis stage's
StageErrorAsAnalysis(func, kind) ==
    [cls |-> "OllamaError", msg |-> "Analysis failed", cause |-> kind]

\* raise OllamaError(f"<prefix>: {str(e)}")
StageError(func, kind) == [cls |-> "OllamaError", msg |-> FailPrefix(func), cause |-> kind]

\* Variant: the presentation call goes to the model of the stage
StageModelPresents(model_name) == model_name

\* OLLAMA_MODELS.get("presenter", model_name)
presenter_model(model_name) ==
    IF "presenter" \in DOMAIN OLLAMA_MODELS THEN OLLAMA_MODELS["presenter"] ELSE model_name

\* The n-th gateway request of func(*args): the model it is sent to and the
\* texts interpolated into the message, in the order of the template.
ChatRequest(func, args, n, imp) ==
    CASE func = "comprehensive_review" /\ n = 1 ->
            [model |-> args[7], template |-> "review", texts |-> SubSeq(args, 1, 6)]
      [] func = "comprehensive_review" /\ n = 2 ->
            [model |-> presenter_model(args[7]),
             template |-> "present", texts |-> <<imp>>]
      [] func = "finalize_prompt" ->
            [model |-> args[3], template |-> "finalize", texts |-> <<args[2], args[1]>>]
      [] func = "verify_answer" ->
            [model |-> args[3], template |-> "verify", texts |-> <<args[1], args[2]>>]
      [] func = "analyze_prompt" ->
            [model |-> args[2], template |-> "analyze", texts |-> <<args[1]>>]
      [] func = "generate_solutions" ->
            [model |-> args[2], template |-> "generate", texts |-> <<args[1]>>]
      [] func = "vet_and_refine" ->
            [model |-> args[2], template |-> "vet", texts |-> <<args[1]>>]
      [] func = "enhance_prompt" ->
            [model |-> args[2], template |-> "enhance", texts |-> <<args[1]>>]
      [] func = "solve_problem" ->
            [model |-> args[2], template |-> "solve", texts |-> <<args[1]>>]

----------------------------------------------------------------------------
(* retry_with_fallback *)

DefaultMaxRetries == 2

EngIdle == [func |-> "", args |-> <<>>, args_list |-> <<>>, model_name |-> NoneVal,
            model_arg_index |-> 0, max_retries |-> 0, i |-> 0, j |-> 0,
            last_error |-> NoError]

SetMin(S) == CHOOSE x \in S : \A y \in S : x <= y

\* Variant: without a hit the last positional argument is taken for the model
DiscoverModelOrLast(args, kw) ==
    LET hits == {n \in 1..Len(args) : args[n] \in ModelValues \/ n = Len(args)}
    IN  [name |-> args[SetMin(hits)], index |-> SetMin(hits)]

\* Lines 14-24: the position of the model argument (0 where Python has -1)
\* and the model name, from the keyword model_name (kw) or by scanning args.
DiscoverModel(args, kw) ==
    IF kw = NoneVal
    THEN LET hits == {n \in 1..Len(args) : args[n] \in ModelValues}
         IN  IF hits = {} THEN [name |-> NoneVal, index |-> 0]
             ELSE [name |-> args[SetMin(hits)], index |-> SetMin(hits)]
    ELSE LET hits == {n \in 1..Len(args) : args[n] = kw}
         IN  [name |-> kw, index |-> IF hits = {} THEN 0 ELSE SetMin(hits)]

\* No iteration is left in either loop (lines 31 and 38)
Exhausted(e, order) ==
    /\ ~(e.j = 0 /\ e.i < e.max_retries)
    /\ e.j >= Len(FallbackChain(order, e.model_name))

\* Variant: the primary loop does not advance
NextAttemptUncounted(e, order) ==
    IF e.j = 0 /\ e.i < e.max_retries
    THEN [e EXCEPT !.i = 1]
    ELSE [e EXCEPT !.j = @ + 1,
                   !.args_list[e.model_arg_index] =
                       FallbackChain(order, e.model_name)[e.j + 1]]

\* The next iteration: of the primary loop while its range lasts, then of the
\* fallback loop, which overwrites args_list[model_arg_index] (line 39).
NextAttempt(e, order) ==
    IF e.j = 0 /\ e.i < e.max_retries
    THEN [e EXCEPT !.i = @ + 1]
    ELSE [e EXCEPT !.j = @ + 1,
                   !.args_list[e.model_arg_index] =
                       FallbackChain(order, e.model_name)[e.j + 1]]

\* Line 47: raise last_error or Exception("All models failed")
EngineRaises(e) == IF e.last_error # NoError THEN e.last_error ELSE AllModelsFailed

\* Variant: only the first failure is kept
RecordFirstFailure(e, err) ==
    IF e.last_error = NoError THEN [e EXCEPT !.last_error = err] ELSE e

\* except Exception as e: last_error = e   (lines 34-35 and 43-44)
RecordFailure(e, err) == [e EXCEPT !.last_error = err]

\* The record of one finished attempt: the arguments the stage function
\* received and its outcome (the exception raised, or the value returned).
AttemptRecord(e, err, val) ==
    [args |-> e.args_list, err |-> err, value |-> val]

\* Entry of retry_with_fallback(func, *args, max_retries, model_name=kw) up to
\* its first call of func, or up to the exception that leaves it at once.
EngineEnter(func, args, max_retries, kw, order) ==
    LET d  == DiscoverModel(args, kw)
        e0 == [func |-> func, args |-> args, args_list |-> args, model_name |-> d.name,
               model_arg_index |-> d.index, max_retries |-> max_retries,
               i |-> 0, j |-> 0, last_error |-> NoError]
    IN  IF d.name = NoneVal \/ d.index = 0
        THEN [eng |-> e0, err |-> NoModelArgument]
        ELSE IF Exhausted(e0, order)
        THEN [eng |-> e0, err |-> EngineRaises(e0)]
        ELSE [eng |-> NextAttempt(e0, order), err |-> NoError]

\* Variant: a timeout is raised at once, any other failure is retried
EngineGivesUpOnTimeout(e, err, order) ==
    LET e1 == RecordFailure(e, err)
    IN  IF err.cause = "timeout" \/ Exhausted(e1, order)
        THEN [eng |-> e1, err |-> EngineRaises(e1)]
        ELSE [eng |-> NextAttempt(e1, order), err |-> NoError]

\* After a failed attempt: the engine with the failure recorded, moved to
\* its next attempt if one is left; err is what the engine raises otherwise.
EngineAfterFailure(e, err, order) ==
    LET e1 == RecordFailure(e, err)
    IN  IF Exhausted(e1, order)
        THEN [eng |-> e1, err |-> EngineRaises(e1)]
        ELSE [eng |-> NextAttempt(e1, order), err |-> NoError]

FirstRequest(e) == <<ChatRequest(e.func, e.args_list, 1, EmptyText)>>

----------------------------------------------------------------------------
(* Boost mode: safe_generate and generate_with_reflection *)

boost_model == MISTRAL

ReflIdle == [content |-> EmptyText, critique |-> EmptyText, plain |-> FALSE]

\* what _chat lets through from the gateway when nothing wraps it
GatewayError(kind) == [cls |-> "GatewayError", msg |-> "", cause |-> kind]

\* the texts interpolated into the prompt_text boost mode builds for a stage
BoostTexts(key, p, res) ==
    CASE key = "analysis" -> <<p>>
      [] key = "generation" -> <<res["analysis"]>>
      [] key = "vetting" -> <<res["generation"]>>
      [] key = "final" -> <<p, res["vetting"]>>
      [] key = "enhanced" -> <<res["final"]>>
      [] key = "comprehensive" ->
            <<p, res["analysis"], res["generation"], res["vetting"],
              res["final"], res["enhanced"]>>

\* the n-th gateway request of generate_with_reflection(boost_model, msgs):
\* base_messages, then base_messages with the content and the critique request,
\* then base_messages with the content and the critique
ReflectionRequest(base, n, r) ==
    CASE n = 1 -> [model |-> boost_model, template |-> "generate", texts |-> base]
      [] n = 2 -> [model |-> boost_model, template |-> "critique",
                   texts |-> Append(base, r.content)]
      [] n = 3 -> [model |-> boost_model, template |-> "improve",
                   texts |-> base \o <<r.content, r.critique>>]

\* Variant: the plain call goes to another model of the registry
PlainRequestToFallback(base) ==
    [model |-> OLLAMA_MODELS["comprehensive"], template |-> "plain", texts |-> base]

\* the request of the except clause of safe_generate
PlainRequest(base) == [model |-> boost_model, template |-> "plain", texts |-> base]

----------------------------------------------------------------------------
(* The parts of the state at rest *)

PipelineVars == <<prompt, mode, mode_arg, results, events, stage, eng, reqs,
                  improved, refl, attempts, called, raised, retval, response,
                  FALLBACK_ORDER, unknown_keys, cb_raises>>

\* no call of run_full_pipeline or retry_with_fallback is being made
PipelineIdle ==
    /\ FALLBACK_ORDER = DefaultFallbackOrder /\ unknown_keys = {} /\ cb_raises = ""
    /\ prompt = EmptyText /\ mode = "<None>" /\ mode_arg = "<None>"
    /\ results = <<>> /\ events = <<>>
    /\ stage = "" /\ eng = EngIdle /\ reqs = <<>> /\ improved = EmptyText
    /\ refl = ReflIdle
    /\ attempts = <<>> /\ called = {} /\ raised = NoError /\ retval = NoneVal
    /\ response = NoneVal

SanIdle == text = EmptyText /\ shown = <<>>

\* the threads that call the gateway
Callers == {1, 2}

\* a thread that is not inside OllamaServiceManager.chat
GwIdle == [pc |-> "idle", calls |-> 0, probed |-> FALSE, fwd |-> FALSE, out |-> "none"]

\* no periodic check: the manager has no app_state.root (line 35)
TimerOff == [pc |-> "off", checks |-> 0]

\* OllamaServiceManager.__init__
GatewayIdle ==
    /\ ollama_ready = FALSE /\ ollama_module = NoneVal /\ ollama_installed = TRUE
    /\ gw = [t \in Callers |-> GwIdle]
    /\ probes = 0 /\ connected = 0 /\ forwarded = 0
    /\ timer = TimerOff

\* no request has reached the API
JNull == [type |-> "null"]
NoRequest == [sent |-> "<no request>", data |-> JNull]
HandlerIdle == [pc |-> "idle", prompt |-> NoneVal, outs |-> <<>>, calls |-> <<>>,
                error |-> NoError]
NoReply == [status |-> 0, error |-> <<>>, output |-> NoneVal]
ApiIdle == http_request = NoRequest /\ handler = HandlerIdle /\ http_reply = NoReply

\* None where an entry is expected; no call has been made on the ProcessingHistory
NoEntry == [input |-> NoneVal, output |-> NoneVal, timestamp |-> -1]
NoCall == [op |-> "none", after |-> "none", ret |-> NoEntry, was |-> -1]

\* ApplicationState.__init__ (is_processing = False), no thread, LoadingIndicator.__init__
GuiIdle == [is_processing |-> FALSE, workers |-> <<>>, loading |-> FALSE,
            status |-> "", stored |-> 0, last |-> [op |-> "none", rejected |-> 0]]

\* problemsolved.py at import: an empty solution_cache, no call of solve_problem
SolverIdle == [pc |-> "idle", cache |-> {}, max_retries |-> 0, subs |-> 0, idx |-> 0,
               attempts |-> 0, solutions |-> <<>>, offered |-> <<>>,
               ret |-> [kind |-> "none", text |-> <<>>, sub |-> 0],
               validated |-> {}, calls |-> 0]

ScriptsIdle == gui = GuiIdle /\ solver = SolverIdle

\* ProcessingHistory.__init__
HistoryIdle ==
    /\ history = <<>> /\ current_index = -1 /\ max_history = 50
    /\ added = 0 /\ last_call = NoCall

----------------------------------------------------------------------------
(* A direct call of retry_with_fallback with a stage function *)

MaxRetriesBound == 2

EngineFuncs == {"analyze_prompt", "finalize_prompt"}
EngineTexts == {PlainText, PHI4, DEEPSEEK}
EngineModels == {LLAMA, PHI4, MISTRAL}
EngineKeywords == {NoneVal, LLAMA}

EngineArgs(func) ==
    IF Arity(func) = 2
    THEN {<<t, m>> : t \in EngineTexts, m \in EngineModels}
    ELSE {<<t, u, m>> : t \in EngineTexts, u \in {PlainText, PHI4}, m \in EngineModels}

InitEngine ==
    /\ pc = "engine_ready"
    /\ FALLBACK_ORDER \in FallbackConfigs
    /\ \E f \in EngineFuncs, n \in 0..MaxRetriesBound, kw \in EngineKeywords :
         \E a \in EngineArgs(f) :
            eng = [EngIdle EXCEPT !.func = f, !.args = a, !.args_list = a,
                                  !.max_retries = n, !.model_name = kw]
    /\ prompt = EmptyText /\ mode = "" /\ results = <<>> /\ events = <<>>
    /\ stage = "" /\ reqs = <<>> /\ improved = EmptyText /\ attempts = <<>>
    /\ refl = ReflIdle
    /\ called = {} /\ raised = NoError /\ retval = NoneVal /\ response = NoneVal
    /\ mode_arg = "<None>" /\ SanIdle /\ GatewayIdle /\ ApiIdle /\ HistoryIdle /\ ScriptsIdle
    /\ unknown_keys = {} /\ cb_raises = ""

UnchangedRun ==
    /\ UNCHANGED <<prompt, mode, results, events, stage, called, refl, FALLBACK_ORDER,
                   unknown_keys, cb_raises>>
    /\ UNCHANGED <<mode_arg, OutsideVars>>

\* retry_with_fallback is called: lines 11-33
EngineCall ==
    /\ pc = "engine_ready"
    /\ LET r == EngineEnter(eng.func, eng.args_list, eng.max_retries,
                            eng.model_name, FALLBACK_ORDER)
       IN  /\ eng' = r.eng
           /\ IF r.err # NoError
              THEN pc' = "raised" /\ raised' = r.err /\ reqs' = <<>>
              ELSE pc' = "chat" /\ raised' = NoError /\ reqs' = FirstRequest(r.eng)
    /\ UNCHANGED <<improved, attempts, retval, response>>
    /\ UnchangedRun

\* The gateway answers the pending request with a response
EngineChatReturns ==
    /\ pc = "chat" /\ stage = ""
    /\ \E reply \in {EmptyText, AnswerText} :
         /\ response' = reply
         /\ IF Len(reqs) < CallsOf(eng.func)
            THEN /\ improved' = reply
                 /\ reqs' = Append(reqs, ChatRequest(eng.func, eng.args_list, Len(reqs) + 1, reply))
                 /\ UNCHANGED <<pc, eng, attempts, raised, retval>>
            ELSE LET v == StageReturn(eng.func, reply, improved)
                 IN  /\ attempts' = Append(attempts, AttemptRecord(eng, NoError, v))
                     /\ pc' = "returned"
                     /\ retval' = v
                     /\ UNCHANGED <<eng, reqs, improved, raised>>
    /\ UnchangedRun

\* The gateway answers the pending request with an exception
EngineChatRaises ==
    /\ pc = "chat" /\ stage = ""
    /\ \E kind \in ErrKinds :
         LET err == StageError(eng.func, kind)
             r   == EngineAfterFailure(eng, err, FALLBACK_ORDER)
         IN  /\ attempts' = Append(attempts, AttemptRecord(eng, err, NoneVal))
             /\ eng' = r.eng
             /\ IF r.err # NoError
                THEN pc' = "raised" /\ raised' = r.err /\ reqs' = <<>>
                ELSE pc' = "chat" /\ raised' = NoError /\ reqs' = FirstRequest(r.eng)
    /\ response' = NoneVal
    /\ UNCHANGED <<improved, retval>>
    /\ UnchangedRun

NextEngine == EngineCall \/ EngineChatReturns \/ EngineChatRaises

SpecEngine == InitEngine /\ [][NextEngine]_vars

----------------------------------------------------------------------------
(* run_full_pipeline *)

DEFAULT_MODE == "auto"

\* str.lower() on the mode strings in use
LowerMode(m) ==
    CASE m = "Solve" -> "solve"
      [] m = "STANDARD" -> "standard"
      [] OTHER -> m

\* str.lower() on a token
LowerTok(tok) == IF tok = "Return Only" THEN "return only" ELSE tok

Cues == {"return only", "output format", "exactly the sample output",
         "answer key", "final answers"}

CueText == <<"Return Only", WS, "p">>

\* Variant: the cues are looked for in the prompt as it is written
ShouldSolveCaseSensitive(p) == \E k \in 1..Len(p) : p[k] \in Cues

_should_solve(p) == \E k \in 1..Len(p) : LowerTok(p[k]) \in Cues

\* Lines 389-391: the mode in force for a non-blank prompt
SelectMode(m, p) ==
    LET m1 == LowerMode(IF m \in {"<None>", ""} THEN DEFAULT_MODE ELSE m)
    IN  IF m1 = "auto" /\ _should_solve(p) THEN "solve" ELSE m1

\* Variant: the prompt is not stripped before the test
PromptRejectedUnstripped(p) == ~Truthy(p)

\* Line 386: if not prompt or not prompt.strip()
PromptRejected(p) == ~Truthy(p) \/ ~Truthy(strip(p))

StandardStages == <<"analysis", "generation", "vetting", "final", "enhanced", "comprehensive">>
SolveStages == <<"solved", "comprehensive">>

\* Variant: a boost run ends after the enhancement stage
StagesOfBoostCut(m) ==
    IF m = "solve" THEN SolveStages
    ELSE IF m = "boost" THEN SubSeq(StandardStages, 1, 5) ELSE StandardStages

\* the results keys assigned by a run in mode m, in program order
StagesOf(m) == IF m = "solve" THEN SolveStages ELSE StandardStages

StageIndex(m, key) == CHOOSE k \in 1..Len(StagesOf(m)) : StagesOf(m)[k] = key

\* the stage function passed to retry_with_fallback for results[key]
StageFunc(m, key) ==
    IF m = "solve"
    THEN IF key = "solved" THEN "solve_problem" ELSE "verify_answer"
    ELSE CASE key = "analysis" -> "analyze_prompt"
           [] key = "generation" -> "generate_solutions"
           [] key = "vetting" -> "vet_and_refine"
           [] key = "final" -> "finalize_prompt"
           [] key = "enhanced" -> "enhance_prompt"
           [] key = "comprehensive" -> "comprehensive_review"

\* the positional arguments passed to retry_with_fallback after the function
StageArgs(m, key, p, res) ==
    IF m = "solve"
    THEN IF key = "solved"
         THEN <<p, OLLAMA_MODELS["comprehensive"]>>
         ELSE <<p, res["solved"],
                IF "presenter" \in DOMAIN OLLAMA_MODELS
                THEN OLLAMA_MODELS["presenter"] ELSE OLLAMA_MODELS["comprehensive"]>>
    ELSE CASE key = "analysis" -> <<p, OLLAMA_MODELS["analysis"]>>
           [] key = "generation" -> <<res["analysis"], OLLAMA_MODELS["generation"]>>
           [] key = "vetting" -> <<res["generation"], OLLAMA_MODELS["vetting"]>>
           [] key = "final" -> <<res["vetting"], p, OLLAMA_MODELS["finalization"]>>
           [] key = "enhanced" -> <<res["final"], OLLAMA_MODELS["enhancement"]>>
           [] key = "comprehensive" ->
                <<p, res["analysis"], res["generation"], res["vetting"],
                  res["final"], res["enhanced"], OLLAMA_MODELS["comprehensive"]>>

\* the phase of the _emit_progress call that follows the assignment of
\* results[key] ("" where none follows)
PhaseAfter(m, key) ==
    IF m = "solve"
    THEN IF key = "solved" THEN "" ELSE "complete"
    ELSE CASE key = "analysis" -> "analysis_done"
           [] key = "generation" -> "generation_done"
           [] key = "vetting" -> "vetting_done"
           [] key = "final" -> "finalize_done"
           [] key = "enhanced" -> "enhance_done"
           [] key = "comprehensive" -> "complete"

\* _emit_progress: progress_cb(phase, PROGRESS_MESSAGES.get(phase, ""), content)
ProgressEvent(phase, content) ==
    [phase |-> phase,
     message |-> IF phase \in DOMAIN PROGRESS_MESSAGES THEN PROGRESS_MESSAGES[phase] ELSE "",
     content |-> content]

\* Variant: the event is delivered without the stage's text
EmitWithoutContent(evs, phase, content) ==
    IF phase = "" THEN evs ELSE Append(evs, ProgressEvent(phase, NoneVal))

_emit_progress(evs, phase, content) ==
    IF phase = "" THEN evs ELSE Append(evs, ProgressEvent(phase, content))

\* Variant: the assignment overwrites the entries already present
SetResultClobber(res, key, value) == [k \in DOMAIN res \cup {key} |-> value]

\* results[key] = value
SetResult(res, key, value) == (key :> value) @@ res

\* The call retry_with_fallback(<stage function>, <stage arguments>) made for
\* results[key], up to its first gateway request
EnterStage(m, key, p, res, order) ==
    EngineEnter(StageFunc(m, key), StageArgs(m, key, p, res), DefaultMaxRetries,
                NoneVal, order)

Prompts == {EmptyText, BlankText, PlainText, PHI4, CueText}
ModeArgs == {"<None>", "auto", "standard", "STANDARD", "solve", "Solve", "boost"}
Responses == {EmptyText, AnswerText, MarkedText}

Init ==
    /\ pc = "ready"
    /\ FALLBACK_ORDER = DefaultFallbackOrder
    /\ prompt = EmptyText /\ mode = "<None>" /\ results = <<>> /\ events = <<>>
    /\ stage = "" /\ eng = EngIdle /\ reqs = <<>> /\ improved = EmptyText
    /\ refl = ReflIdle
    /\ attempts = <<>> /\ called = {} /\ raised = NoError /\ retval = NoneVal
    /\ response = NoneVal
    /\ mode_arg = "<None>" /\ SanIdle /\ GatewayIdle /\ ApiIdle /\ HistoryIdle /\ ScriptsIdle
    /\ unknown_keys = {} /\ cb_raises = ""

\* Variant: the failure is noted and the run carries on with the same request
SwallowError(err) ==
    /\ pc' = "chat" /\ raised' = err /\ reqs' = reqs
    /\ UNCHANGED <<results, events, stage, called>>

\* An exception leaves run_full_pipeline: nothing in it catches one
PropagateError(err) ==
    /\ pc' = "raised" /\ raised' = err /\ reqs' = <<>>
    /\ UNCHANGED <<results, events, stage, called>>

\* what progress_cb raises when it does
CallbackError == [cls |-> "CallbackError", msg |-> "progress_cb raised", cause |-> ""]

\* progress_cb raises when _emit_progress calls it with this phase
CallbackRaises(phase) == phase # "" /\ phase = cb_raises

\* The exception of progress_cb leaves _emit_progress, which has no except
\* clause, and then run_full_pipeline
StopAtCallback == pc' = "raised" /\ raised' = CallbackError /\ reqs' = <<>>

\* the keys of OLLAMA_MODELS subscripted in the call made for results[key];
\* the default of OLLAMA_MODELS.get("presenter", ...) is evaluated too
KeysRead(m, key) ==
    IF m = "solve" THEN {"comprehensive"}
    ELSE CASE key = "final" -> {"finalization"}
           [] key = "enhanced" -> {"enhancement"}
           [] OTHER -> {key}

\* OLLAMA_MODELS[k] for a key the mapping lacks
KeyError == [cls |-> "KeyError", msg |-> "KeyError", cause |-> ""]

\* Moves the run into the stage for results[key]: the arguments of the call
\* are evaluated, the engine is entered and its first gateway request
\* issued, or the engine raises at once.
GoToStage(m, key, p, res) ==
    IF m = "boost"
    THEN /\ stage' = key
         /\ refl' = ReflIdle
         /\ reqs' = <<ReflectionRequest(BoostTexts(key, p, res), 1, ReflIdle)>>
         /\ called' = called \cup {key}
         /\ pc' = "chat" /\ raised' = NoError
         /\ UNCHANGED <<eng, attempts, improved>>
    ELSE IF KeysRead(m, key) \cap unknown_keys # {}
    THEN /\ stage' = key
         /\ pc' = "raised" /\ raised' = KeyError /\ reqs' = <<>>
         /\ eng' = EngIdle /\ attempts' = <<>> /\ improved' = EmptyText
         /\ UNCHANGED <<refl, called>>
    ELSE LET r == EnterStage(m, key, p, res, FALLBACK_ORDER)
         IN  /\ stage' = key
             /\ eng' = r.eng
             /\ attempts' = <<>>
             /\ improved' = EmptyText
             /\ refl' = refl
             /\ IF r.err # NoError
                THEN pc' = "raised" /\ raised' = r.err /\ reqs' = <<>> /\ called' = called
                ELSE /\ pc' = "chat" /\ raised' = NoError
                     /\ reqs' = FirstRequest(r.eng)
                     /\ called' = called \cup {key}

\* run_full_pipeline(p, progress_cb, mode=m) is called: lines 386-394 and the
\* entry of the first stage
RunFullPipeline ==
    /\ pc = "ready"
    /\ \E p \in Prompts, m \in ModeArgs :
         /\ prompt' = p
         /\ mode_arg' = m
         /\ IF PromptRejected(p)
            THEN /\ pc' = "raised" /\ raised' = PromptIsEmpty
                 /\ mode' = m
                 /\ UNCHANGED <<results, events, stage, eng, reqs, improved,
                                refl, attempts, called>>
            ELSE LET m2 == SelectMode(m, p)
                 IN  /\ mode' = m2
                     /\ results' = <<>>
                     /\ events' = _emit_progress(<<>>, "start", NoneVal)
                     /\ IF CallbackRaises("start")
                        THEN /\ StopAtCallback
                             /\ UNCHANGED <<stage, eng, improved, refl, attempts, called>>
                        ELSE GoToStage(m2, StagesOf(m2)[1], p, <<>>)
    /\ UNCHANGED <<retval, response, FALLBACK_ORDER, unknown_keys,
                   cb_raises, OutsideVars>>

\* The gateway returns a response to the pending request of a stage
ChatReturns ==
    /\ pc = "chat" /\ stage # "" /\ mode # "boost"
    /\ \E reply \in Responses :
         /\ response' = reply
         /\ IF Len(reqs) < CallsOf(eng.func)
            THEN /\ improved' = reply
                 /\ reqs' = Append(reqs, ChatRequest(eng.func, eng.args_list, Len(reqs) + 1, reply))
                 /\ UNCHANGED <<pc, results, events, stage, eng, attempts, called,
                                raised, refl, retval>>
            ELSE LET v    == StageReturn(eng.func, reply, improved)
                     res1 == SetResult(results, stage, v)
                     k    == StageIndex(mode, stage)
                 IN  /\ results' = res1
                     /\ events' = _emit_progress(events, PhaseAfter(mode, stage), res1[stage])
                     /\ IF CallbackRaises(PhaseAfter(mode, stage))
                        THEN /\ StopAtCallback
                             /\ retval' = retval
                             /\ attempts' = Append(attempts, AttemptRecord(eng, NoError, v))
                             /\ UNCHANGED <<stage, eng, improved, called, refl>>
                        ELSE IF k < Len(StagesOf(mode))
                        THEN /\ GoToStage(mode, StagesOf(mode)[k + 1], prompt, res1)
                             /\ retval' = retval
                        ELSE /\ pc' = "returned"
                             /\ retval' = res1
                             /\ attempts' = Append(attempts, AttemptRecord(eng, NoError, v))
                             /\ UNCHANGED <<stage, eng, reqs, improved, called,
                                            raised, refl>>
    /\ UNCHANGED <<prompt, mode, mode_arg, FALLBACK_ORDER, unknown_keys,
                   cb_raises, OutsideVars>>

\* The gateway raises on the pending request of a stage
ChatRaises ==
    /\ pc = "chat" /\ stage # "" /\ mode # "boost"
    /\ \E kind \in ErrKinds :
         LET err == StageError(eng.func, kind)
             r   == EngineAfterFailure(eng, err, FALLBACK_ORDER)
         IN  /\ attempts' = Append(attempts, AttemptRecord(eng, err, NoneVal))
             /\ eng' = r.eng
             /\ improved' = EmptyText
             /\ IF r.err # NoError
                THEN PropagateError(r.err)
                ELSE /\ pc' = "chat" /\ raised' = NoError /\ reqs' = FirstRequest(r.eng)
                     /\ UNCHANGED <<results, events, stage, called>>
    /\ response' = NoneVal
    /\ UNCHANGED <<prompt, mode, mode_arg, refl, retval, FALLBACK_ORDER, unknown_keys,
                   cb_raises, OutsideVars>>

\* Boost mode: the gateway returns a response to the pending request of
\* safe_generate
BoostChatReturns ==
    /\ pc = "chat" /\ stage # "" /\ mode = "boost"
    /\ \E reply \in Responses :
         /\ response' = reply
         /\ IF ~refl.plain /\ Len(reqs) < 3
            THEN LET r1 == IF Len(reqs) = 1 THEN [refl EXCEPT !.content = reply]
                                            ELSE [refl EXCEPT !.critique = reply]
                 IN  /\ refl' = r1
                     /\ reqs' = Append(reqs, ReflectionRequest(
                                   BoostTexts(stage, prompt, results), Len(reqs) + 1, r1))
                     /\ UNCHANGED <<pc, results, events, stage, called, raised, retval>>
            ELSE LET res1 == SetResult(results, stage, reply)
                     k    == StageIndex(mode, stage)
                 IN  /\ results' = res1
                     /\ events' = _emit_progress(events, PhaseAfter(mode, stage), res1[stage])
                     /\ IF CallbackRaises(PhaseAfter(mode, stage))
                        THEN /\ StopAtCallback
                             /\ retval' = retval
                             /\ UNCHANGED <<stage, called, refl>>
                        ELSE IF k < Len(StagesOf(mode))
                        THEN /\ GoToStage(mode, StagesOf(mode)[k + 1], prompt, res1)
                             /\ retval' = retval
                        ELSE /\ pc' = "returned"
                             /\ retval' = res1
                             /\ UNCHANGED <<stage, reqs, called, raised, refl>>
    /\ UNCHANGED <<prompt, mode, mode_arg, eng, attempts, improved, FALLBACK_ORDER, unknown_keys,
                   cb_raises, OutsideVars>>

\* Boost mode: the gateway raises on the pending request of safe_generate
BoostChatRaises ==
    /\ pc = "chat" /\ stage # "" /\ mode = "boost"
    /\ \E kind \in ErrKinds :
         IF ~refl.plain
         THEN /\ refl' = [ReflIdle EXCEPT !.plain = TRUE]
              /\ reqs' = <<PlainRequest(BoostTexts(stage, prompt, results))>>
              /\ UNCHANGED <<pc, raised, results, events, stage, called>>
         ELSE /\ PropagateError(GatewayError(kind))
              /\ refl' = refl
    /\ response' = NoneVal
    /\ UNCHANGED <<prompt, mode, mode_arg, eng, attempts, improved, retval, FALLBACK_ORDER,
                   unknown_keys, cb_raises, OutsideVars>>

Next == RunFullPipeline \/ ChatReturns \/ ChatRaises
        \/ BoostChatReturns \/ BoostChatRaises

Spec == Init /\ [][Next]_vars

----------------------------------------------------------------------------
(* ui_components.sanitize_output, applied by update_output to every text   *)
(* it displays.  Here a token is one character, except the marker, which   *)
(* is a single token: the texts are those in which no formatting           *)
(* character stands inside the marker.                                     *)

\* the characters of the formatting artifacts (BQ: the backquote)
STAR == "*"
HASH == "#"
BQ == "<backquote>"

\* t.replace(pat, ""): the occurrences found from the left, not overlapping
RECURSIVE Remove(_, _)
Remove(t, pat) ==
    IF t = <<>> THEN t
    ELSE IF Len(t) >= Len(pat) /\ SubSeq(t, 1, Len(pat)) = pat
         THEN Remove(SubSeq(t, Len(pat) + 1, Len(t)), pat)
         ELSE <<Head(t)>> \o Remove(Tail(t), pat)

\* "PRESENT TO USER:" in t
HasMarker(t) == \E k \in 1..Len(t) : t[k] = MARKER

\* t.split("PRESENT TO USER:", 1)[1]
AfterMarker(t) ==
    LET k == SetMin({n \in 1..Len(t) : t[n] = MARKER})
    IN  SubSeq(t, k + 1, Len(t))

\* t.splitlines()
RECURSIVE splitlines(_)
splitlines(t) ==
    IF t = <<>> THEN <<>>
    ELSE LET brk == {n \in 1..Len(t) : t[n] = NL}
         IN  IF brk = {} THEN <<t>>
             ELSE <<SubSeq(t, 1, SetMin(brk) - 1)>>
                  \o splitlines(SubSeq(t, SetMin(brk) + 1, Len(t)))

\* [line.strip() for line in lines if line.strip()]
RECURSIVE StrippedLines(_)
StrippedLines(lines) ==
    IF lines = <<>> THEN <<>>
    ELSE IF Truthy(strip(Head(lines)))
         THEN <<strip(Head(lines))>> \o StrippedLines(Tail(lines))
         ELSE StrippedLines(Tail(lines))

\* "\n".join(lines)
RECURSIVE JoinLines(_)
JoinLines(lines) ==
    IF lines = <<>> THEN <<>>
    ELSE IF Len(lines) = 1 THEN lines[1]
    ELSE lines[1] \o <<NL>> \o JoinLines(Tail(lines))

\* the four replace calls, in the order of the source
RemoveArtifacts(t) ==
    Remove(Remove(Remove(Remove(t, <<BQ, BQ, BQ>>), <<STAR, STAR>>), <<HASH>>), <<BQ>>)

sanitize_output(t) ==
    IF ~Truthy(t) THEN EmptyText
    ELSE LET t1 == RemoveArtifacts(t)
             t2 == IF HasMarker(t1) THEN AfterMarker(t1) ELSE t1
         IN  strip(JoinLines(StrippedLines(splitlines(t2))))

MaxTextLen == 4
MaxApplications == 2

SanAlphabet == {STAR, HASH, BQ, WS, NL, "a", MARKER}

SanTexts == UNION {[1..n -> SanAlphabet] : n \in 0..MaxTextLen}

InitSanitize ==
    /\ pc = "ui"
    /\ text \in SanTexts
    /\ shown = <<>>
    /\ PipelineIdle /\ GatewayIdle /\ ApiIdle /\ HistoryIdle /\ ScriptsIdle

\* sanitize_output is applied to the text, then to what it returned
SanitizeOutput ==
    /\ pc = "ui"
    /\ Len(shown) < MaxApplications
    /\ shown' = Append(shown, sanitize_output(IF shown = <<>> THEN text
                                              ELSE shown[Len(shown)]))
    /\ UNCHANGED <<pc, text, PipelineVars, GatewayVars, ApiVars, HistoryVars, ScriptVars>>

NextSanitize == SanitizeOutput

SpecSanitize == InitSanitize /\ [][NextSanitize]_vars

----------------------------------------------------------------------------
(* ollama_service_manager.OllamaServiceManager: the chat gateway.  A step  *)
(* is a thread entering chat, the answer to its health probe with the      *)
(* rest of initialize_ollama, or the client library's answer.              *)

MaxChats == 2

\* what the GET on /api/health can come to
HealthAnswers == {"200", "503", "timeout", "refused"}

\* True for status 200, False for any other status or exception
check_ollama_service(answer) == answer = "200"

\* str(e) of OllamaError("Ollama service not ready")
ServiceNotReady == "Ollama service not ready"

\* what the client library's chat can come to
ClientAnswers == {"content"} \cup ErrKinds

\* initialize_ollama after the probe: bound to the client library, unless
\* the probe failed or the import raises ImportError
initialize_ollama(answer, module, installed) ==
    IF check_ollama_service(answer) /\ (module # NoneVal \/ installed)
    THEN [ok |-> TRUE, module |-> <<"ollama">>, ready |-> TRUE]
    ELSE [ok |-> FALSE, module |-> module, ready |-> FALSE]

\* Variant: the call goes to the client library whatever initialization gave
ForwardRegardless(ok) == "forward"

\* chat, lines 101-103: raise if initialization failed, forward otherwise
AfterInitialize(ok) == IF ok THEN "forward" ELSE "raise"

InitGateway ==
    /\ pc = "gateway"
    /\ ollama_ready = FALSE /\ ollama_module = NoneVal
    /\ ollama_installed \in BOOLEAN
    /\ gw = [t \in Callers |-> GwIdle]
    /\ probes = 0 /\ connected = 0 /\ forwarded = 0
    /\ timer = TimerOff
    /\ PipelineIdle /\ SanIdle /\ ApiIdle /\ HistoryIdle /\ ScriptsIdle

UnchangedByGateway ==
    UNCHANGED <<pc, PipelineVars, SanVars, ApiVars, HistoryVars, ScriptVars, ollama_installed>>

\* a call of chat leaves the periodic check as it is
UnchangedByChat == UnchangedByGateway /\ UNCHANGED timer

\* Thread t calls chat: line 100, then the forwarded call (103) or the
\* request of the health probe (lines 101, 63, 43)
ChatEnter(t) ==
    /\ pc = "gateway"
    /\ gw[t].pc = "idle" /\ gw[t].calls < MaxChats
    /\ IF ollama_ready
       THEN /\ gw' = [gw EXCEPT ![t] = [pc |-> "forward", calls |-> @.calls + 1,
                                        probed |-> FALSE, fwd |-> TRUE, out |-> "none"]]
            /\ forwarded' = forwarded + 1
            /\ probes' = probes
       ELSE /\ gw' = [gw EXCEPT ![t] = [pc |-> "probe", calls |-> @.calls + 1,
                                        probed |-> TRUE, fwd |-> FALSE, out |-> "none"]]
            /\ probes' = probes + 1
            /\ forwarded' = forwarded
    /\ UNCHANGED <<ollama_ready, ollama_module, connected>>
    /\ UnchangedByChat

\* The health probe of thread t is answered: the rest of initialize_ollama
\* (lines 47-82), then chat raises or forwards the call
ProbeAnswered(t) ==
    /\ pc = "gateway"
    /\ gw[t].pc = "probe"
    /\ \E answer \in HealthAnswers :
         LET r == initialize_ollama(answer, ollama_module, ollama_installed)
         IN  /\ ollama_module' = r.module
             /\ ollama_ready' = (ollama_ready \/ r.ready)
             /\ connected' = IF r.ok THEN connected + 1 ELSE connected
             /\ IF AfterInitialize(r.ok) = "forward"
                THEN /\ gw' = [gw EXCEPT ![t].pc = "forward", ![t].fwd = TRUE]
                     /\ forwarded' = forwarded + 1
                ELSE /\ gw' = [gw EXCEPT ![t].pc = "idle", ![t].out = ServiceNotReady]
                     /\ forwarded' = forwarded
    /\ probes' = probes
    /\ UnchangedByChat

\* The client library answers the forwarded call of thread t
ClientAnswered(t) ==
    /\ pc = "gateway"
    /\ gw[t].pc = "forward"
    /\ \E answer \in ClientAnswers :
         gw' = [gw EXCEPT ![t].pc = "idle", ![t].out = answer]
    /\ UNCHANGED <<ollama_ready, ollama_module, probes, connected, forwarded>>
    /\ UnchangedByChat

NextGateway ==
    \E t \in Callers : ChatEnter(t) \/ ProbeAnswered(t) \/ ClientAnswered(t)

SpecGateway == InitGateway /\ [][NextGateway]_vars

----------------------------------------------------------------------------
(* The engine's claims, over the attempts of one retry_with_fallback call *)

\* the model the caller passed to the stage function (its last parameter)
PrimaryModel == eng.args[Len(eng.args)]

\* the model the stage function was called with in the k-th attempt
AttemptModel(k) == attempts[k].args[Len(attempts[k].args)]

PrimaryChain == FallbackChain(FALLBACK_ORDER, PrimaryModel)

\* a direct engine call with a registry model that got as far as the loops
EngineRan == stage = "" /\ eng.func # "" /\ pc # "engine_ready"
             /\ raised # NoModelArgument /\ PrimaryModel \in ModelValues

\* C1: with max_retries = n and a chain of length m for the model, the stage
\* function is called at most n + m times, the attempts on the primary model
\* are the first n at most and precede every fallback attempt, the value
\* returned is that of the first successful attempt, and no attempt follows
\* a success.
C1_Original ==
    EngineRan =>
        /\ Len(attempts) <= eng.max_retries + Len(PrimaryChain)
        /\ \A k \in 1..Len(attempts) :
              (AttemptModel(k) = PrimaryModel) <=> (k <= eng.max_retries)
        /\ \A k \in 1..Len(attempts) :
              /\ k < Len(attempts) => attempts[k].err # NoError
              /\ attempts[k].err = NoError =>
                    pc = "returned" /\ retval = attempts[k].value
        /\ pc = "returned" => attempts # <<>> /\ attempts[Len(attempts)].err = NoError

\* C2: an always failing stage function and a model with chain [B, C]: the
\* primary model is called max_retries times, then B once, then C once, then
\* the engine raises; max_retries + 2 attempts in all.
C2_Original ==
    (EngineRan /\ pc = "raised" /\ Len(PrimaryChain) = 2) =>
        /\ Len(attempts) = eng.max_retries + 2
        /\ \A k \in 1..Len(attempts) :
              AttemptModel(k) = IF k <= eng.max_retries THEN PrimaryModel
                                ELSE PrimaryChain[k - eng.max_retries]

\* C4: a model without an entry in the fallback mapping: no fallback attempt
\* is made, a primary success is returned, and when all primary attempts fail
\* the engine raises after exactly max_retries attempts.
C4_Original ==
    (EngineRan /\ PrimaryModel \notin DOMAIN FALLBACK_ORDER) =>
        /\ \A k \in 1..Len(attempts) : AttemptModel(k) = PrimaryModel
        /\ \A k \in 1..Len(attempts) : attempts[k].args = eng.args
        /\ Len(attempts) <= eng.max_retries
        /\ pc = "raised" => Len(attempts) = eng.max_retries
        /\ (attempts # <<>> /\ attempts[Len(attempts)].err = NoError) =>
              pc = "returned" /\ retval = attempts[Len(attempts)].value

\* The three statements above on the calls in which no text argument is
\* itself a model identifier
NoTextIsModel == \A k \in 1..(Len(eng.args) - 1) : eng.args[k] \notin ModelValues
EngineSane == NoTextIsModel => (C1_Original /\ C2_Original /\ C4_Original)

----------------------------------------------------------------------------
(* The pipeline's claims *)

\* a run of the six-stage pipeline through retry_with_fallback
IsStandardRun == stage # "" /\ mode \notin {"solve", "boost"}

StandardKeys == {StandardStages[k] : k \in 1..Len(StandardStages)}

\* C5 as stated: a standard run in which every stage succeeds returns a map
\* with the six stage keys, each mapped to a non-empty string.
C5_Original ==
    (IsStandardRun /\ pc = "returned") =>
        \A key \in StandardKeys : key \in DOMAIN results /\ results[key] # EmptyText

\* C5 as amended: a standard run in which every stage succeeds returns a map
\* whose keys are the six stage keys, each mapped to the text its stage
\* returned, that is the content of the stage's last gateway response, which
\* is empty when that response is empty.
C5_SixStageResults ==
    /\ [](IsStandardRun /\ pc = "returned" =>
             /\ DOMAIN results = StandardKeys
             /\ \A key \in StandardKeys : results[key] \in Responses
             /\ results["comprehensive"] = response)
    /\ [][(IsStandardRun /\ results' # results) =>
             /\ response' \in Responses
             /\ results' = (stage :> response') @@ results]_vars

\* a standard run has returned all six keys, one of them mapped to the empty text
C5_Witness ==
    /\ IsStandardRun /\ pc = "returned" /\ mode = "standard"
    /\ DOMAIN results = StandardKeys
    /\ results["analysis"] = AnswerText /\ results["final"] = EmptyText
    /\ results["comprehensive"] = AnswerText /\ improved = EmptyText

IsBlank(p) == \A k \in 1..Len(p) : p[k] \in {WS, NL}

\* C6: for an empty or whitespace-only prompt, in every mode, the call raises
\* ValueError before any stage executes: no gateway request has been issued.
C6_BlankPromptRejected ==
    (pc # "ready" /\ IsBlank(prompt)) =>
        /\ pc = "raised" /\ raised = PromptIsEmpty
        /\ called = {} /\ reqs = <<>> /\ response = NoneVal
        /\ stage = "" /\ results = <<>> /\ events = <<>>

\* a whitespace-only prompt has been rejected in boost mode
C6_Witness ==
    /\ pc = "raised" /\ prompt = BlankText /\ mode = "boost"
    /\ raised = PromptIsEmpty /\ called = {}

\* C7: once a stage has failed with retries and fallbacks exhausted, the run
\* is over (Failed): no request is pending, the stages that have called the
\* gateway are those up to the failing one, and no gateway call follows.
C7_FailFast ==
    /\ [](raised # NoError =>
             /\ pc = "raised" /\ reqs = <<>>
             /\ stage # "" =>
                   called = {StagesOf(mode)[k] : k \in 1..StageIndex(mode, stage)})
    /\ [][raised # NoError => UNCHANGED <<called, reqs, response, results, stage>>]_vars

\* the vetting stage has failed after two primary and two fallback attempts
C7_Witness ==
    /\ pc = "raised" /\ stage = "vetting" /\ mode = "standard"
    /\ Len(attempts) = 4 /\ raised.cls = "OllamaError"
    /\ called = {"analysis", "generation", "vetting"}
    /\ DOMAIN results = {"analysis", "generation"}

\* the texts the claim gives each stage as input, in parameter order
C8_Inputs(key) ==
    CASE key = "analysis" -> <<prompt>>
      [] key = "generation" -> <<results["analysis"]>>
      [] key = "vetting" -> <<results["generation"]>>
      [] key = "final" -> <<results["vetting"], prompt>>
      [] key = "enhanced" -> <<results["final"]>>
      [] key = "comprehensive" ->
            <<prompt, results["analysis"], results["generation"],
              results["vetting"], results["final"], results["enhanced"]>>

TextArgs(args) == SubSeq(args, 1, Len(args) - 1)

\* C8: in a standard run the stages execute one after another in the order
\* analysis, generation, vetting, finalization, enhancement, comprehensive
\* review, and in every attempt a stage function receives as input the prompt
\* and/or the preceding stage's output (comprehensive review: the prompt and
\* all five earlier outputs).
C8_Original ==
    IsStandardRun =>
        LET k == StageIndex(mode, stage)
        IN  /\ called = {StandardStages[n] : n \in 1..k}
            /\ DOMAIN results =
                 {StandardStages[n] : n \in 1..(IF pc = "returned" THEN k ELSE k - 1)}
            /\ pc = "chat" => TextArgs(eng.args_list) = C8_Inputs(stage)
            /\ \A n \in 1..Len(attempts) : TextArgs(attempts[n].args) = C8_Inputs(stage)

\* C8 holds of the runs whose prompt is not itself a model identifier
C8_UnlessPromptIsModel == prompt \notin ModelValues => C8_Original

\* C9: the results map starts empty, gets a key only when that key's stage
\* completes successfully, and no key is removed or overwritten during the run.
C9_AppendOnly ==
    /\ results = <<>>
    /\ [][/\ \A key \in DOMAIN results :
                key \in DOMAIN results' /\ results'[key] = results[key]
          /\ results' # results =>
                /\ pc = "chat" /\ response' # NoneVal
                /\ stage \notin DOMAIN results
                /\ DOMAIN results' = DOMAIN results \cup {stage}
                /\ stage' # stage \/ pc' = "returned"]_vars

\* three stages have completed with different outputs and the run goes on
C9_Witness ==
    /\ pc = "chat" /\ stage = "final"
    /\ DOMAIN results = {"analysis", "generation", "vetting"}
    /\ results["analysis"] = EmptyText /\ results["generation"] = AnswerText

\* an exception raised by a stage, as opposed to the rejection of the prompt
StageFailed == pc = "raised" /\ stage # ""

\* C10 as stated: an unrecoverable stage failure raises a PipelineStageError
\* that names the failing stage and carries the underlying cause; when it is
\* the analysis stage, no stage result has been produced.
C10_Original ==
    StageFailed =>
        /\ raised.cls = "PipelineStageError"
        /\ raised.msg = FailPrefix(StageFunc(mode, stage))
        /\ raised.cause \in ErrKinds
        /\ stage = "analysis" => results = <<>>

\* C10 as amended: in standard and solve mode an unrecoverable stage failure
\* raises the OllamaError of the failing stage's function, whose message is
\* that stage's failure prefix ("Analysis failed" for analysis) followed by
\* the text of the gateway error of the last attempt; in boost mode the
\* gateway's own exception leaves the call unwrapped and names no stage.
\* When the first stage fails, no stage result has been produced.
C10_StageErrorRaised ==
    StageFailed =>
        /\ raised.cause \in ErrKinds
        /\ IF mode = "boost"
           THEN raised.cls = "GatewayError" /\ raised.msg = ""
           ELSE /\ raised.cls = "OllamaError"
                /\ raised.msg = FailPrefix(StageFunc(mode, stage))
                /\ raised = attempts[Len(attempts)].err
        /\ stage = StagesOf(mode)[1] => results = <<>>
        /\ DOMAIN results = {StagesOf(mode)[k] : k \in 1..(StageIndex(mode, stage) - 1)}

\* the vetting model and both of its fallbacks have failed in a standard run
C10_Witness ==
    /\ StageFailed /\ mode = "standard" /\ stage = "vetting"
    /\ raised = [cls |-> "OllamaError", msg |-> "Vetting failed", cause |-> "timeout"]
    /\ Len(attempts) = 4 /\ attempts[1].err.cause = "connection"

----------------------------------------------------------------------------
(* What the caller of run_full_pipeline holds once the call is over *)

\* the outputs the progress callback was handed for results[key]
DeliveredBy(evs, m, key) ==
    {evs[n].content : n \in {i \in 1..Len(evs) : evs[i].phase = PhaseAfter(m, key)}}

\* the caller can read the output of results[key]: in the map the call
\* returned, or in an event its callback received for that stage
CallerCanRead(key) ==
    \/ retval # NoneVal /\ key \in DOMAIN retval /\ retval[key] = results[key]
    \/ results[key] \in DeliveredBy(events, mode, key)

\* C11: when a run has failed at some stage, the output of every stage that
\* completed before the failure is available to the caller.
C11_Original ==
    StageFailed => \A key \in DOMAIN results : CallerCanRead(key)

\* What holds instead: a failed run returns nothing, and the outputs that
\* reached the caller are those its callback received in "done" events,
\* which a solve-mode run does not emit for the solve stage
C11_OnlyEventsSurvive ==
    StageFailed =>
        /\ retval = NoneVal
        /\ \A key \in DOMAIN results :
              CallerCanRead(key) <=> PhaseAfter(mode, key) # ""

\* the assembly the claim describes: the text after the marker, trimmed, or
\* the response itself where it holds no marker
AssembledAsClaimed(t) == IF HasMarker(t) THEN strip(AfterMarker(t)) ELSE t

\* C12: the comprehensive output of a completed standard run is the
\* presenter's response after the marker "PRESENT TO USER:", trimmed, when
\* the response holds the marker, and the response unmodified otherwise.
C12_Original ==
    (IsStandardRun /\ pc = "returned") =>
        results["comprehensive"] = AssembledAsClaimed(response)

\* What holds instead: run_full_pipeline hands out the presenter's response
\* as it came, the marker included
C12_ResponseAsItCame ==
    (IsStandardRun /\ pc = "returned") =>
        /\ results["comprehensive"] = response
        /\ retval["comprehensive"] = response
        /\ events[Len(events)].content = response

\* the PROGRESS_MESSAGES key that announces the stage for results[key]
StartedPhase(key) ==
    CASE key = "analysis" -> "analyzing"
      [] key = "generation" -> "generating"
      [] key = "vetting" -> "vetting"
      [] key = "final" -> "finalizing"
      [] key = "enhanced" -> "enhancing"
      [] key = "comprehensive" -> "comprehensive"
      [] key = "solved" -> "solving"

\* the phases run_full_pipeline emits on the way to a result
SuccessPhases ==
    {"start", "analysis_done", "generation_done", "vetting_done",
     "finalize_done", "enhance_done", "complete"}

Phases(evs) == [n \in 1..Len(evs) |-> evs[n].phase]

\* C14: for every stage, a "phase started" event naming the stage has been
\* emitted by the time the stage makes its first gateway call.
C14_Original ==
    \A key \in called : \E n \in 1..Len(events) : events[n].phase = StartedPhase(key)

\* What holds instead: the callback only ever receives "start", the "done"
\* events and "complete"; a stage's first call is preceded by the event of
\* the stage before it, or by "start"
C14_NoStartedEvent ==
    /\ \A n \in 1..Len(events) : events[n].phase \in SuccessPhases
    /\ [][stage' # stage =>
            /\ pc' = "chat" => Len(reqs') = 1
            /\ events' # <<>>
            /\ events'[Len(events')].phase =
                  IF stage = "" \/ PhaseAfter(mode', stage) = "" THEN "start"
                  ELSE PhaseAfter(mode', stage)]_vars

\* a run of run_full_pipeline has returned its results
RunCompleted == stage # "" /\ pc = "returned"

\* C15: a successful run delivers "start" first, then for each stage in
\* order an event carrying that stage's text (for the last stage this is
\* taken to be the "complete" event, which carries the comprehensive
\* output), emitted when the stage succeeded and before the next stage's
\* first call.
C15_Original ==
    RunCompleted =>
        /\ Len(events) = Len(StagesOf(mode)) + 1
        /\ events[1].phase = "start"
        /\ \A k \in 1..Len(StagesOf(mode)) :
              events[k + 1].content = results[StagesOf(mode)[k]]
        /\ events[Len(events)].phase = "complete"
        /\ events[Len(events)].content = results["comprehensive"]

\* C15 as amended: a successful run delivers "start" first and "complete",
\* carrying the comprehensive output, last.  In the six-stage modes five
\* "done" events lie between them, one for each stage before the
\* comprehensive review, in pipeline order, each carrying its stage's text;
\* in solve mode nothing lies between them.  Every event that carries a
\* stage's text is emitted in the step that stores the text, before the next
\* stage's first call.
C15_EventsByMode ==
    /\ [](RunCompleted =>
            /\ events[1].phase = "start"
            /\ events[Len(events)] = ProgressEvent("complete", results["comprehensive"])
            /\ IF mode = "solve"
               THEN Phases(events) = <<"start", "complete">>
               ELSE /\ Phases(events) =
                         <<"start", "analysis_done", "generation_done", "vetting_done",
                           "finalize_done", "enhance_done", "complete">>
                    /\ \A k \in 1..6 : events[k + 1].content = results[StandardStages[k]])
    /\ [][results' # results =>
            events' = _emit_progress(events, PhaseAfter(mode, stage), results'[stage])]_vars

\* a standard run has completed and its callback holds seven events, the
\* stages' different texts among them
C15_Witness ==
    /\ RunCompleted /\ mode = "standard" /\ Len(events) = 7
    /\ events[2] = ProgressEvent("analysis_done", AnswerText)
    /\ events[3] = ProgressEvent("generation_done", EmptyText)
    /\ events[7] = ProgressEvent("complete", MarkedText)

\* C16: when a stage has failed, the last event the callback received is an
\* event about that failure.
C16_Original ==
    StageFailed =>
        /\ events # <<>>
        /\ events[Len(events)].phase \notin SuccessPhases

\* What holds instead: the failure of a stage emits nothing
C16_FailureEmitsNothing ==
    [][(pc' = "raised" /\ pc # "raised") => events' = events]_vars

\* the signal phrases as the claim lists them
SignalPhrases == {"return only", "output format", "exactly the sample output",
                  "answer key", "final answers"}

\* the text holds a signal phrase, in whatever case it is written
HasSignalPhrase(p) == \E k \in 1..Len(p) : LowerTok(p[k]) \in SignalPhrases

\* a call of run_full_pipeline that got past the validation of the prompt
RunStarted == stage # ""

\* C17: a run requested in mode "auto" (in any case) is a solve run exactly
\* when the prompt holds a signal phrase, case-insensitively; a run requested
\* in mode "standard", "solve" or "boost" is a run in that mode whatever the
\* prompt says; the mode in force decides the stage functions and does not
\* change during the run.
C17_ModeSelection ==
    /\ [](RunStarted =>
            /\ LowerMode(mode_arg) = "auto" =>
                  /\ (mode = "solve") <=> HasSignalPhrase(prompt)
                  /\ mode \in {"solve", "auto"}
            /\ LowerMode(mode_arg) \in {"standard", "solve", "boost"} =>
                  mode = LowerMode(mode_arg)
            /\ (mode = "solve") <=> (stage = "solved" \/ "solved" \in DOMAIN results)
            /\ mode # "boost" => eng.func = StageFunc(mode, stage)
            /\ mode = "boost" => eng = EngIdle)
    /\ [][pc # "ready" => mode' = mode /\ mode_arg' = mode_arg /\ prompt' = prompt]_vars

\* a prompt written "Return Only ..." was submitted in mode "auto" and has
\* been answered by the solve and verify stages
C17_Witness ==
    /\ RunCompleted /\ mode_arg = "auto" /\ prompt = CueText /\ mode = "solve"
    /\ DOMAIN results = {"solved", "comprehensive"}

\* a prompt holding a signal phrase runs the six stages when standard mode
\* is requested
C17_WitnessExplicit ==
    /\ RunCompleted /\ mode_arg = "STANDARD" /\ prompt = CueText /\ mode = "standard"
    /\ DOMAIN results = StandardKeys

IsSolveRun == stage # "" /\ mode = "solve"

\* C18: a solve run performs the solve stage, then the verify stage on the
\* original prompt and the solve stage's answer, sends no request of any of
\* the six standard stages, and returns a map whose "comprehensive" entry is
\* the verify stage's output.
C18_Original ==
    IsSolveRun =>
        /\ stage \in {"solved", "comprehensive"}
        /\ eng.func = (IF stage = "solved" THEN "solve_problem" ELSE "verify_answer")
        /\ \A n \in 1..Len(reqs) : reqs[n].template \in {"solve", "verify"}
        /\ (stage = "comprehensive") <=> ("solved" \in DOMAIN results)
        /\ stage = "comprehensive" =>
              /\ pc = "chat" => TextArgs(eng.args_list) = <<prompt, results["solved"]>>
              /\ \A n \in 1..Len(attempts) :
                    TextArgs(attempts[n].args) = <<prompt, results["solved"]>>
        /\ pc = "returned" =>
              /\ DOMAIN results = {"solved", "comprehensive"}
              /\ results["comprehensive"] = response
              /\ retval = results

\* C18 holds of the solve runs whose prompt is not itself a model identifier
C18_UnlessPromptIsModel == prompt \notin ModelValues => C18_Original

\* the phases a completed six-stage run has delivered, in order
SixStagePhases ==
    <<"start", "analysis_done", "generation_done", "vetting_done",
      "finalize_done", "enhance_done", "complete">>

\* C19: a completed boost run and a completed standard run have the same
\* external shape, whatever the prompt: both return a map whose keys are
\* the six stage keys and both deliver the same sequence of phases, each
\* "done" event following the assignment of its stage's key.
C19_SameShape ==
    (RunCompleted /\ mode \in {"boost", "standard", "auto"}) =>
        /\ DOMAIN retval = StandardKeys
        /\ DOMAIN results = StandardKeys
        /\ Phases(events) = SixStagePhases
        /\ \A k \in 1..6 : events[k + 1].content = retval[StandardStages[k]]

\* a boost run has completed, one of its stages through the plain call
C19_Witness ==
    /\ RunCompleted /\ mode = "boost" /\ refl.plain
    /\ Phases(events) = SixStagePhases /\ DOMAIN retval = StandardKeys
    /\ retval["analysis"] = AnswerText /\ retval["comprehensive"] = EmptyText

----------------------------------------------------------------------------
(* Termination of a run *)

\* the gateway's responses all carry the same text: which stage runs next,
\* and which attempt, does not depend on the text of a response
AnswersAlike == response' \in {NoneVal, AnswerText}

NextAlike == Next /\ AnswersAlike

\* run_full_pipeline where every gateway call is answered in the end
FairSpec == Init /\ [][NextAlike]_vars /\ WF_vars(NextAlike)

\* the longest chain of the fallback mapping
SetMax(S) == CHOOSE x \in S : \A y \in S : y <= x
MaxChainLen ==
    SetMax({Len(DefaultFallbackOrder[m]) : m \in DOMAIN DefaultFallbackOrder})

\* attempts the engine can still start after the one in progress
AttemptsLeft(e, order) ==
    (IF e.j = 0 THEN e.max_retries - e.i ELSE 0)
    + (Len(FallbackChain(order, e.model_name)) - e.j)

\* the most gateway calls the stage for results[key] can make
MaxCallsOfStage(m, key) ==
    IF m = "boost" THEN 4
    ELSE (DefaultMaxRetries + MaxChainLen) * CallsOf(StageFunc(m, key))

RECURSIVE MaxCallsFrom(_, _)
MaxCallsFrom(m, k) ==
    IF k > Len(StagesOf(m)) THEN 0
    ELSE MaxCallsOfStage(m, StagesOf(m)[k]) + MaxCallsFrom(m, k + 1)

\* the most gateway calls the stage in progress can still make, the pending
\* one included
CallsLeftInStage ==
    IF mode = "boost"
    THEN IF refl.plain THEN 1 ELSE (4 - Len(reqs)) + 1
    ELSE (CallsOf(eng.func) - Len(reqs) + 1)
         + AttemptsLeft(eng, FALLBACK_ORDER) * CallsOf(eng.func)

\* the most gateway calls the run can still make
Budget ==
    IF pc = "chat" /\ stage # ""
    THEN CallsLeftInStage + MaxCallsFrom(mode, StageIndex(mode, stage) + 1)
    ELSE 0

\* 5 stages of one call and one of two, each attempted at most four times
MaxGatewayCalls == SetMax({MaxCallsFrom(m, 1) : m \in {"standard", "solve", "boost"}})

\* C22: every run terminates: when every gateway call is answered, a run in
\* any mode reaches Completed (results returned) or Failed (an error
\* raised), and it does so within a bounded number of gateway calls: every
\* answer of the gateway lowers the number of calls the run can still make,
\* which is at most 28 at the start and never negative.
C22_Terminates ==
    /\ (pc = "chat") ~> (pc \in {"returned", "raised"})
    /\ [](Budget \in 0..MaxGatewayCalls)
    /\ [](pc \in {"returned", "raised"} => reqs = <<>> \/ RunCompleted)
    /\ [][pc = "chat" => Budget' < Budget]_vars
    /\ [][pc \notin {"returned", "raised"}]_vars

\* a standard run has ended in its last stage after four attempts of it
C22_Witness ==
    /\ pc = "raised" /\ stage = "comprehensive" /\ mode = "standard"
    /\ Len(attempts) = 4 /\ DOMAIN results = StandardKeys \ {"comprehensive"}

----------------------------------------------------------------------------
(* The claims on sanitize_output *)

\* C13: the cleanup is idempotent: sanitize_output(sanitize_output(t)) is
\* sanitize_output(t) for every text t.
C13_Original ==
    Len(shown) >= 2 => shown[2] = shown[1]

\* Where idempotence does hold: on the texts whose first result contains
\* neither an asterisk pair nor the marker
C13_IdempotentWhenClean ==
    (Len(shown) >= 2 /\ ~HasMarker(shown[1])
       /\ Remove(shown[1], <<STAR, STAR>>) = shown[1]) => shown[2] = shown[1]

----------------------------------------------------------------------------
(* The claims on the chat gateway *)

\* C20: a chat call is with the client library only while the ready flag is
\* true; a call that finds the flag false sends the health probe first and
\* forwards nothing before initialization has succeeded (probe answered 200,
\* then the client library bound, then the flag set); when initialization
\* fails the call raises "Ollama service not ready" and has forwarded
\* nothing.
C20_ForwardOnlyWhenReady ==
    /\ [](\A t \in Callers :
            /\ gw[t].pc = "forward" => ollama_ready /\ gw[t].fwd
            /\ ollama_ready => ollama_module # NoneVal
            /\ gw[t].pc = "probe" => gw[t].probed /\ ~gw[t].fwd
            /\ gw[t].out = ServiceNotReady => gw[t].probed /\ ~gw[t].fwd
            /\ gw[t].fwd /\ gw[t].probed => ollama_installed)
    /\ [][\A t \in Callers :
            /\ (gw[t].pc = "idle" /\ gw'[t].pc # "idle") =>
                  IF ollama_ready
                  THEN gw'[t].pc = "forward" /\ probes' = probes
                  ELSE gw'[t].pc = "probe" /\ probes' = probes + 1
                       /\ forwarded' = forwarded
            /\ (gw[t].pc = "probe" /\ gw'[t].pc # "probe") =>
                  \/ /\ gw'[t].pc = "forward" /\ ollama_ready'
                     /\ forwarded' = forwarded + 1
                  \/ /\ gw'[t].pc = "idle" /\ gw'[t].out = ServiceNotReady
                     /\ forwarded' = forwarded /\ ollama_ready' = ollama_ready
            /\ forwarded' # forwarded => ollama_ready']_vars

\* one call has raised "Ollama service not ready" after a failed probe,
\* forwarding nothing, and a later probe has let another call through
C20_Witness ==
    /\ gw[1].out = ServiceNotReady /\ gw[1].pc = "idle" /\ ~gw[1].fwd
    /\ gw[2].pc = "forward" /\ gw[2].probed /\ ollama_ready
    /\ probes = 2 /\ forwarded = 1

\* the threads whose health probe is in flight
Probing == {t \in Callers : gw[t].pc = "probe"}

\* C21: initialization is single-flight: with two threads calling the
\* gateway while it is not ready, at most one health probe is in flight at
\* any time and at most one "service ready" notification is ever given.
C21_Original ==
    /\ Cardinality(Probing) <= 1
    /\ connected <= 1

\* What holds instead: every call that finds the flag false sends its own
\* probe, and every probe answered 200 gives a notification
C21_OneProbePerUnreadyCall ==
    /\ connected <= probes
    /\ probes <= Cardinality(Callers) * MaxChats
    /\ [][\A t \in Callers :
            (gw[t].pc = "idle" /\ gw'[t].pc # "idle" /\ ~ollama_ready) =>
                probes' = probes + 1]_vars

----------------------------------------------------------------------------
(* api.py: POST /process_prompt.  A step is the arrival of a request, with *)
(* its validation up to the first stage call, or the outcome of the stage  *)
(* function the handler is calling.  The import of processing_functions,   *)
(* a module of the repository, is taken to succeed.                        *)

\* JSON values as request.get_json gives them: None, bool, int, str, list, dict
JBool(b) == [type |-> "bool", b |-> b]
JNum(n) == [type |-> "number", n |-> n]
JStr(t) == [type |-> "str", s |-> t]
JList(items) == [type |-> "list", items |-> items]
JDict(fields) == [type |-> "dict", fields |-> fields]

\* a word of 50,000 characters; any other token given to the API is one character
MAX_PROMPT_CHARS == 50000
LONG == "<50000 characters>"
TokLen(tok) == IF tok = LONG THEN MAX_PROMPT_CHARS ELSE 1

\* len() of a str
RECURSIVE len(_)
len(t) == IF t = <<>> THEN 0 ELSE TokLen(Head(t)) + len(Tail(t))

\* "not data"
Falsy(data) ==
    CASE data.type = "null" -> TRUE
      [] data.type = "bool" -> ~data.b
      [] data.type = "number" -> data.n = 0
      [] data.type = "str" -> data.s = <<>>
      [] data.type = "list" -> data.items = <<>>
      [] data.type = "dict" -> DOMAIN data.fields = {}

\* "key in data": a substring of a str, an item of a list, a key of a dict
Contains(data, key) ==
    CASE data.type = "str" -> \E i \in DOMAIN data.s : data.s[i] = key
      [] data.type = "list" -> \E i \in DOMAIN data.items : data.items[i] = key
      [] data.type = "dict" -> key \in DOMAIN data.fields

TypeError == [cls |-> "TypeError", msg |-> "TypeError", cause |-> ""]

Verdict(ok, msg, err) == [ok |-> ok, msg |-> msg, err |-> err]

\* validate_prompt_request: (is_valid, error_message), or the exception that
\* leaves it
validate_prompt_request(data) ==
    IF Falsy(data) THEN Verdict(FALSE, "No JSON data provided", NoError)
    ELSE IF data.type \in {"bool", "number"} THEN Verdict(FALSE, "", TypeError)
    ELSE IF ~Contains(data, "prompt")
    THEN Verdict(FALSE, "Missing 'prompt' field in request", NoError)
    ELSE IF data.type # "dict" THEN Verdict(FALSE, "", TypeError)
    ELSE LET p == data.fields["prompt"]
         IN  IF p.type # "str" THEN Verdict(FALSE, "'prompt' must be a string", NoError)
             ELSE IF ~Truthy(strip(p.s))
             THEN Verdict(FALSE, "'prompt' cannot be empty", NoError)
             ELSE IF len(p.s) > MAX_PROMPT_CHARS
             THEN Verdict(FALSE, "'prompt' exceeds maximum length of 50,000 characters",
                          NoError)
             ELSE Verdict(TRUE, "", NoError)

\* request.get_json(silent=True): None unless the body parses as JSON
get_json(req) == IF req.sent = "json" THEN req.data ELSE JNull

\* the stage functions in the order the handler calls them
ApiStages == <<"analyze_prompt", "generate_solutions", "vet_and_refine",
               "finalize_prompt", "enhance_prompt", "comprehensive_review">>

\* the positional arguments of the handler's k-th stage call
ApiArgs(k, h) ==
    CASE k = 1 -> <<h.prompt, OLLAMA_MODELS["analysis"]>>
      [] k = 2 -> <<h.outs[1], OLLAMA_MODELS["generation"]>>
      [] k = 3 -> <<h.outs[2], OLLAMA_MODELS["vetting"]>>
      [] k = 4 -> <<h.outs[3], h.prompt, OLLAMA_MODELS["finalization"]>>
      [] k = 5 -> <<h.outs[4], OLLAMA_MODELS["enhancement"]>>
      [] k = 6 -> <<h.prompt, h.outs[1], h.outs[2], h.outs[3], h.outs[4], h.outs[5],
                    OLLAMA_MODELS["comprehensive"], OLLAMA_MODELS["presenter"]>>

\* Python binds the call's arguments to the function's parameters
Binds(func, args) == Len(args) = Arity(func)

\* Variant: the answer to an internal failure carries the exception's text
ErrorBodyWithDetails(err) == <<"An error occurred: ", err.msg, err.cause>>

\* the except clause, lines 127-130
InternalErrorBody(err) == <<"An error occurred while processing your prompt">>

Answer(status, error, output) == [status |-> status, error |-> error, output |-> output]

ApiPrompts == {EmptyText, <<WS>>, BlankText, <<"a">>, <<WS, "a", NL>>, <<LONG>>,
               <<WS, LONG>>, <<LONG, "a">>}
ApiData ==
    {JNull, JBool(FALSE), JBool(TRUE), JNum(0), JNum(5),
     JStr(<<>>), JStr(<<"x">>), JStr(<<"a", WS, "prompt">>),
     JList(<<>>), JList(<<"x">>), JList(<<"prompt">>),
     JDict(<<>>), JDict([k \in {"text"} |-> JStr(<<"a">>)]),
     JDict([k \in {"prompt"} |-> JNull]), JDict([k \in {"prompt"} |-> JNum(5)]),
     JDict([k \in {"prompt"} |-> JList(<<"a">>)])}
    \cup {JDict([k \in {"prompt"} |-> JStr(t)]) : t \in ApiPrompts}
ApiRequests ==
    {[sent |-> "nothing", data |-> JNull], [sent |-> "invalid", data |-> JNull]}
    \cup {[sent |-> "json", data |-> d] : d \in ApiData}
ApiOutputs == {EmptyText, AnswerText}

InitApi ==
    /\ pc = "api"
    /\ http_request \in ApiRequests
    /\ handler = HandlerIdle /\ http_reply = NoReply
    /\ PipelineIdle /\ SanIdle /\ GatewayIdle /\ HistoryIdle /\ ScriptsIdle

UnchangedByApi == UNCHANGED <<pc, http_request, PipelineVars, SanVars, GatewayVars, HistoryVars, ScriptVars>>

\* the handler leaves through its "except Exception" clause
AnswerInternalError(err, calls) ==
    /\ http_reply' = Answer(500, InternalErrorBody(err), NoneVal)
    /\ handler' = [handler EXCEPT !.pc = "done", !.error = err, !.calls = calls]

\* process_prompt, lines 86-108: the request arrives and is validated
ProcessPrompt ==
    /\ pc = "api" /\ handler.pc = "idle"
    /\ LET data == get_json(http_request)
           v == validate_prompt_request(data)
       IN  IF v.err # NoError THEN AnswerInternalError(v.err, handler.calls)
           ELSE IF ~v.ok
           THEN /\ http_reply' = Answer(400, <<v.msg>>, NoneVal)
                /\ handler' = [handler EXCEPT !.pc = "done"]
           ELSE /\ handler' = [handler EXCEPT !.pc = "stage",
                                              !.prompt = strip(data.fields["prompt"].s)]
                /\ UNCHANGED http_reply
    /\ UnchangedByApi

\* the stage function being called returns: lines 109-121
ApiStageReturns ==
    /\ pc = "api" /\ handler.pc = "stage"
    /\ LET k == Len(handler.outs) + 1
       IN  /\ Binds(ApiStages[k], ApiArgs(k, handler))
           /\ \E out \in ApiOutputs :
                 /\ handler' = [handler EXCEPT
                                  !.outs = Append(@, out),
                                  !.calls = Append(@, ApiStages[k]),
                                  !.pc = IF k = Len(ApiStages) THEN "done" ELSE "stage"]
                 /\ http_reply' = IF k = Len(ApiStages) THEN Answer(200, <<>>, out)
                                  ELSE http_reply
    /\ UnchangedByApi

\* the stage function being called raises its OllamaError
ApiStageRaises ==
    /\ pc = "api" /\ handler.pc = "stage"
    /\ LET k == Len(handler.outs) + 1
       IN  /\ Binds(ApiStages[k], ApiArgs(k, handler))
           /\ \E kind \in ErrKinds :
                 AnswerInternalError(StageError(ApiStages[k], kind),
                                     Append(handler.calls, ApiStages[k]))
    /\ UnchangedByApi

\* the call does not fit the function's parameters: TypeError, before the
\* function's body is entered
ApiCallRejected ==
    /\ pc = "api" /\ handler.pc = "stage"
    /\ LET k == Len(handler.outs) + 1
       IN  /\ ~Binds(ApiStages[k], ApiArgs(k, handler))
           /\ AnswerInternalError(TypeError, handler.calls)
    /\ UnchangedByApi

NextApi == ProcessPrompt \/ ApiStageReturns \/ ApiStageRaises \/ ApiCallRejected

SpecApi == InitApi /\ [][NextApi]_vars

----------------------------------------------------------------------------
(* The claims on POST /process_prompt *)

HasPromptField(req) ==
    req.sent = "json" /\ req.data.type = "dict" /\ "prompt" \in DOMAIN req.data.fields

\* the requests the endpoint is to refuse
MustBeRefused(req) ==
    \/ ~HasPromptField(req)
    \/ LET p == req.data.fields["prompt"]
       IN  p.type # "str" \/ strip(p.s) = <<>> \/ len(p.s) > MAX_PROMPT_CHARS

Answered == handler.pc = "done"

\* C23: a request without a JSON body, with invalid JSON, without a 'prompt'
\* field, or with a prompt that is not a string, is blank or is longer than
\* 50,000 characters is answered 400 with an error body and no stage is
\* called; any other request passes validation.
C23_Original ==
    handler.pc # "idle" =>
        IF MustBeRefused(http_request)
        THEN /\ Answered /\ http_reply.status = 400
             /\ http_reply.error # <<>> /\ handler.calls = <<>>
        ELSE /\ http_reply.status # 400
             /\ handler.prompt = strip(http_request.data.fields["prompt"].s)

\* C24: a valid request none of whose stages fails is answered 200 with the
\* comprehensive stage's text as output, each of the six stage functions
\* having been called once.
C24_Original ==
    (Answered /\ ~MustBeRefused(http_request) /\ handler.error.cls # "OllamaError") =>
        /\ http_reply.status = 200
        /\ handler.calls = ApiStages
        /\ http_reply.output = handler.outs[Len(ApiStages)]

Range(seq) == {seq[i] : i \in DOMAIN seq}

\* the answer's error body carries the exception's text
ExposesError(body, err) == err.msg \in Range(body) \/ err.cause \in Range(body)

\* the handler's stage calls are the first stages in order, one call each
CalledInOrder == handler.calls = SubSeq(ApiStages, 1, Len(handler.calls))

\* C25: when a stage raises while a valid request is served, the answer is
\* 500 with an error body that does not carry the exception's text, the
\* stage that raised is the last one called, and the handler does nothing
\* after the answer.
C25_FailureAnswered500 ==
    /\ [](handler.error.cls = "OllamaError" =>
            /\ ~MustBeRefused(http_request)
            /\ Answered /\ http_reply.status = 500
            /\ http_reply.error # <<>> /\ http_reply.output = NoneVal
            /\ ~ExposesError(http_reply.error, handler.error)
            /\ CalledInOrder /\ Len(handler.calls) = Len(handler.outs) + 1
            /\ handler.error.msg = FailPrefix(handler.calls[Len(handler.calls)]))
    /\ [](handler.pc = "stage" => CalledInOrder /\ handler.error = NoError)
    /\ [][~Answered]_vars

C25_Witness ==
    /\ handler.error = StageError("vet_and_refine", "timeout")
    /\ handler.calls = <<"analyze_prompt", "generate_solutions", "vet_and_refine">>
    /\ http_reply.status = 500

----------------------------------------------------------------------------
(* processing_history.ProcessingHistory.  A step is one call of add, undo, *)
(* redo, get_current or clear; each runs under the object's lock.          *)

MaxHistoryBound == 3
MaxAdds == 5

\* the entry of an add; its timestamp is the reading of the clock
Entry(input, output, now) == [input |-> input, output |-> output, timestamp |-> now]

\* Variant: the add keeps the redo entries
PrefixWithRedo(seq, n) == seq

\* seq[:n], n >= 0
Prefix(seq, n) == SubSeq(seq, 1, IF n < Len(seq) THEN n ELSE Len(seq))

\* Variant: the trim keeps the oldest entries
FirstN(seq, n) == Prefix(seq, n)

\* seq[-n:], n >= 0 (seq[-0:] is the whole list)
LastN(seq, n) ==
    IF n = 0 \/ n >= Len(seq) THEN seq ELSE SubSeq(seq, Len(seq) - n + 1, Len(seq))

\* seq[i], counted from the end when i is negative
Item(seq, i) == IF i >= 0 THEN seq[i + 1] ELSE seq[Len(seq) + i + 1]

\* Variant: undo is available on the first entry too
CanUndoAtFirst(index) == index >= 0

can_undo(index) == index > 0

can_redo(index, entries) == index < Len(entries) - 1

Called(op, ret) == [op |-> op, after |-> last_call.op, ret |-> ret, was |-> current_index]

HistInputs == {PlainText}
HistOutputs == {AnswerText, MarkedText}

InitHistory ==
    /\ pc = "history"
    /\ history = <<>> /\ current_index = -1
    /\ max_history \in 1..MaxHistoryBound
    /\ added = 0 /\ last_call = NoCall
    /\ PipelineIdle /\ SanIdle /\ GatewayIdle /\ ApiIdle /\ ScriptsIdle

UnchangedByHistory ==
    UNCHANGED <<pc, max_history, PipelineVars, SanVars, GatewayVars, ApiVars, ScriptVars>>

\* add, lines 13-31
HistoryAdd ==
    /\ pc = "history" /\ added < MaxAdds
    /\ \E input_text \in HistInputs, output_text \in HistOutputs :
         LET kept == Prefix(history, current_index + 1)
             grown == Append(kept, Entry(input_text, output_text, added + 1))
         IN  /\ IF Len(grown) > max_history
                THEN /\ history' = LastN(grown, max_history)
                     /\ current_index' = Len(history') - 1
                ELSE /\ history' = grown
                     /\ current_index' = current_index + 1
             /\ last_call' = Called("add", NoEntry)
    /\ added' = added + 1
    /\ UnchangedByHistory

\* undo, lines 41-47
HistoryUndo ==
    /\ pc = "history"
    /\ IF can_undo(current_index)
       THEN /\ current_index' = current_index - 1
            /\ last_call' = Called("undo", Item(history, current_index - 1))
       ELSE /\ last_call' = Called("undo", NoEntry)
            /\ UNCHANGED current_index
    /\ UNCHANGED <<history, added>>
    /\ UnchangedByHistory

\* redo, lines 49-55
HistoryRedo ==
    /\ pc = "history"
    /\ IF can_redo(current_index, history)
       THEN /\ current_index' = current_index + 1
            /\ last_call' = Called("redo", Item(history, current_index + 1))
       ELSE /\ last_call' = Called("redo", NoEntry)
            /\ UNCHANGED current_index
    /\ UNCHANGED <<history, added>>
    /\ UnchangedByHistory

\* get_current, lines 57-62
HistoryGetCurrent ==
    /\ pc = "history"
    /\ last_call' = Called("get_current",
                           IF 0 <= current_index /\ current_index < Len(history)
                           THEN Item(history, current_index) ELSE NoEntry)
    /\ UNCHANGED <<history, current_index, added>>
    /\ UnchangedByHistory

\* clear, lines 64-68
HistoryClear ==
    /\ pc = "history"
    /\ history' = <<>> /\ current_index' = -1
    /\ last_call' = Called("clear", NoEntry)
    /\ UNCHANGED added
    /\ UnchangedByHistory

NextHistory == HistoryAdd \/ HistoryUndo \/ HistoryRedo \/ HistoryGetCurrent \/ HistoryClear

SpecHistory == InitHistory /\ [][NextHistory]_vars

----------------------------------------------------------------------------
(* The claims on ProcessingHistory *)

\* the step is a call of op
IsCall(op) == last_call' # last_call /\ last_call'.op = op

\* the add of this step finds the history full up to the current entry
Overflows == current_index + 2 > max_history

\* C26: the history never holds more than max_history entries, whatever the
\* calls made; its entries are in the order of their insertion; after an add
\* the newest entry is the last and the current one, preceded by the entries
\* that led to the former current entry, of which an overflowing add keeps
\* only the most recent max_history - 1.
C26_LimitRespected ==
    /\ [](/\ Len(history) <= max_history
          /\ current_index \in -1..(Len(history) - 1)
          /\ \A i, j \in DOMAIN history :
                i < j => history[i].timestamp < history[j].timestamp)
    /\ [][IsCall("add") =>
            LET n == Len(history')
            IN  /\ n = IF Overflows THEN max_history ELSE current_index + 2
                /\ current_index' = n - 1
                /\ history'[n].timestamp = added'
                /\ \A i \in 1..(n - 1) : history'[i] = history[current_index + 1 - (n - 1) + i]
         ]_vars

\* an add has overflowed and dropped the two oldest entries
C26_Witness ==
    /\ max_history = 3 /\ added = 5 /\ last_call.op = "add"
    /\ Len(history) = 3 /\ current_index = 2
    /\ history[1].timestamp = 3 /\ history[3].timestamp = 5

\* C27: undo moves to the entry before the current one and returns it, redo
\* moves to the entry after it and returns it, a redo right after an undo
\* that moved comes back to the entry the undo left; undo at the first entry
\* or on an empty history, and redo at the last entry, return None and
\* change neither the history nor the current index.
C27_Navigation ==
    /\ [][IsCall("undo") =>
            /\ history' = history
            /\ IF current_index >= 1
               THEN /\ current_index' = current_index - 1
                    /\ last_call'.ret = history[current_index]
               ELSE /\ current_index' = current_index
                    /\ last_call'.ret = NoEntry]_vars
    /\ [][IsCall("redo") =>
            /\ history' = history
            /\ IF current_index + 1 < Len(history)
               THEN /\ current_index' = current_index + 1
                    /\ last_call'.ret = history[current_index + 2]
               ELSE /\ current_index' = current_index
                    /\ last_call'.ret = NoEntry]_vars
    /\ [][(IsCall("redo") /\ last_call.op = "undo" /\ last_call.ret # NoEntry) =>
            /\ current_index' = last_call.was
            /\ last_call'.ret = history[last_call.was + 1]]_vars

\* a redo right after an undo has come back to the third entry
C27_Witness ==
    /\ last_call.op = "redo" /\ last_call.after = "undo"
    /\ Len(history) = 3 /\ current_index = 2 /\ last_call.was = 1
    /\ last_call.ret = history[3]

\* an undo at the first entry has returned None
C27_WitnessAtFirst ==
    /\ last_call.op = "undo" /\ last_call.ret = NoEntry
    /\ current_index = 0 /\ last_call.was = 0 /\ Len(history) = 2

----------------------------------------------------------------------------
(* The formatting artifacts in what sanitize_output returns *)

\* pat occurs in t
Occurs(t, pat) ==
    \E k \in 1..(Len(t) - Len(pat) + 1) : SubSeq(t, k, k + Len(pat) - 1) = pat

\* C28: what sanitize_output returns contains no triple backquote, no pair
\* of asterisks, no backquote and no hash sign, whatever text it is given.
C28_Original ==
    Len(shown) >= 1 =>
        /\ ~Occurs(shown[1], <<BQ, BQ, BQ>>)
        /\ ~Occurs(shown[1], <<STAR, STAR>>)
        /\ ~Occurs(shown[1], <<BQ>>)
        /\ ~Occurs(shown[1], <<HASH>>)

----------------------------------------------------------------------------
(* The arguments the stage function receives from retry_with_fallback *)

\* C29: in every attempt the stage function receives the non-model
\* arguments of the call of retry_with_fallback, whatever their texts: an
\* attempt differs from the first only in its last argument, the model.
C29_Original ==
    \A n \in DOMAIN attempts :
        \A k \in 1..(Arity(eng.func) - 1) : attempts[n].args[k] = eng.args[k]

----------------------------------------------------------------------------
(* The two calls of comprehensive_review *)

\* a call of comprehensive_review made by the engine is waiting for the gateway
InReview == pc = "chat" /\ mode # "boost" /\ eng.func = "comprehensive_review"

\* the step ends an attempt of the stage with a failure
AttemptFails ==
    /\ Len(attempts') = Len(attempts) + 1
    /\ attempts'[Len(attempts')].err # NoError

\* C30: comprehensive_review makes two gateway calls in sequence: the
\* combine call, then, once it has returned, the presentation call, whose
\* input is the combine call's response and whose model is the presenter
\* model in every attempt, fallback attempts included; the stage returns
\* only after both; a failure of either call ends one attempt of the stage,
\* and the next attempt starts again with the combine call.
C30_TwoSequentialCalls ==
    /\ [](InReview =>
            /\ Len(reqs) \in 1..2
            /\ reqs[1].template = "review"
            /\ reqs[1].texts = SubSeq(eng.args_list, 1, 6)
            /\ Len(reqs) = 2 =>
                  /\ response \in Responses /\ improved = response
                  /\ reqs[2].template = "present"
                  /\ reqs[2].texts = <<improved>>
                  /\ reqs[2].model = OLLAMA_MODELS["presenter"])
    /\ [][(InReview /\ pc' = "returned") => Len(reqs) = 2]_vars
    /\ [][(InReview /\ AttemptFails) =>
            /\ attempts' = Append(attempts, AttemptRecord(eng, attempts'[Len(attempts')].err, NoneVal))
            /\ pc' = "chat" =>
                  /\ eng'.i + eng'.j = eng.i + eng.j + 1
                  /\ improved' = EmptyText
                  /\ reqs' = <<ChatRequest("comprehensive_review", eng'.args_list, 1, EmptyText)>>
         ]_vars

\* the presentation call of the first fallback attempt is pending, the two
\* primary attempts of the stage having failed
C30_Witness ==
    /\ InReview /\ eng.j = 1 /\ Len(attempts) = 2
    /\ eng.args_list[7] = FallbackChain(FALLBACK_ORDER, OLLAMA_MODELS["comprehensive"])[1]
    /\ Len(reqs) = 2 /\ reqs[2].model = OLLAMA_MODELS["presenter"]
    /\ reqs[1].model = eng.args_list[7]
    /\ improved = AnswerText

----------------------------------------------------------------------------
(* The engine and the kind of a failure *)

\* the arguments of the k-th attempt as the call of retry_with_fallback
\* fixes them, whatever the earlier attempts raised
AttemptArgsAt(e, order, k) ==
    IF k <= e.max_retries THEN e.args
    ELSE [e.args EXCEPT ![e.model_arg_index] =
                            FallbackChain(order, e.model_name)[k - e.max_retries]]

\* the attempts the call can make at most
TotalAttempts(e, order) == e.max_retries + Len(FallbackChain(order, e.model_name))

\* C31: the engine does not look at the kind of a failure: the arguments
\* (and so the model) of the k-th attempt depend only on the call and on k,
\* after a failure of any kind the next attempt is made while one is left,
\* and the engine raises only after the last one has failed.
C31_KindBlind ==
    (stage = "" /\ pc \in {"chat", "returned", "raised"} /\ eng.model_arg_index > 0) =>
        /\ \A k \in DOMAIN attempts :
              attempts[k].args = AttemptArgsAt(eng, FALLBACK_ORDER, k)
        /\ \A k \in DOMAIN attempts :
              attempts[k].err # NoError => attempts[k].err.cause \in ErrKinds
        /\ pc = "chat" =>
              /\ Len(attempts) < TotalAttempts(eng, FALLBACK_ORDER)
              /\ eng.args_list = AttemptArgsAt(eng, FALLBACK_ORDER, Len(attempts) + 1)
        /\ pc = "raised" => Len(attempts) = TotalAttempts(eng, FALLBACK_ORDER)

\* four attempts have failed, by a timeout, a connection error, a timeout
\* and a connection error
C31_Witness ==
    /\ stage = "" /\ pc = "raised" /\ Len(attempts) = 4 /\ eng.max_retries = 2
    /\ attempts[1].err.cause = "timeout" /\ attempts[2].err.cause = "connection"
    /\ attempts[3].err.cause = "timeout" /\ attempts[4].err.cause = "connection"
    /\ attempts[3].args # attempts[1].args

----------------------------------------------------------------------------
(* Calls whose model cannot be resolved: a direct call of                  *)
(* retry_with_fallback, or a run under a LOGIC_FILTER_MODELS_JSON that     *)
(* leaves a stage without a model.                                         *)

\* registries that lack one key, their values being those of the default
UnknownKeyConfigs == {{"finalization"}, {"comprehensive"}}

InitResolve ==
    \/ InitEngine
    \/ /\ pc = "ready"
       /\ unknown_keys \in UnknownKeyConfigs /\ cb_raises = ""
       /\ FALLBACK_ORDER = DefaultFallbackOrder
       /\ prompt = EmptyText /\ mode = "<None>" /\ mode_arg = "<None>"
       /\ results = <<>> /\ events = <<>>
       /\ stage = "" /\ eng = EngIdle /\ reqs = <<>> /\ improved = EmptyText
       /\ refl = ReflIdle
       /\ attempts = <<>> /\ called = {} /\ raised = NoError /\ retval = NoneVal
       /\ response = NoneVal
       /\ SanIdle /\ GatewayIdle /\ ApiIdle /\ HistoryIdle /\ ScriptsIdle

NextResolve == Next \/ NextEngine

SpecResolve == InitResolve /\ [][NextResolve]_vars

\* no argument of the call in progress is a configured model identifier
\* (or none is the model_name keyword given)
NoModelAmongArgs ==
    IF eng.model_name = NoneVal
    THEN \A k \in DOMAIN eng.args : eng.args[k] \notin ModelValues
    ELSE \A k \in DOMAIN eng.args : eng.args[k] # eng.model_name

\* C32: a call whose model cannot be resolved fails at once: when no
\* argument of retry_with_fallback is a configured model identifier it
\* raises "No model argument found", and when the registry has no model for
\* the stage's key the run raises on reaching the stage; in both cases the
\* stage function is never called, no gateway request is made for the stage
\* and no fallback model is substituted.
C32_FatalAtOnce ==
    /\ [](raised \in {NoModelArgument, KeyError} =>
            /\ pc = "raised" /\ retval = NoneVal
            /\ attempts = <<>> /\ reqs = <<>> /\ stage \notin called
            /\ eng.i = 0 /\ eng.j = 0 /\ eng.args_list = eng.args)
    /\ [][(pc = "engine_ready" /\ NoModelAmongArgs) =>
            (pc' = "raised" /\ raised' = NoModelArgument)]_vars
    /\ []((stage # "" /\ mode # "boost" /\ KeysRead(mode, stage) \cap unknown_keys # {})
            => raised = KeyError)
    /\ [][raised \notin {NoModelArgument, KeyError}]_vars

\* a direct call whose only candidate is a model the registry does not hold
C32_Witness ==
    /\ raised = NoModelArgument /\ pc = "raised" /\ stage = ""
    /\ eng.func = "analyze_prompt" /\ eng.args = <<PlainText, MISTRAL>>
    /\ eng.max_retries = 2

\* a standard run stopped at the comprehensive stage, whose key is unknown
C32_WitnessUnknownKey ==
    /\ raised = KeyError /\ mode = "standard" /\ stage = "comprehensive"
    /\ DOMAIN results = StandardKeys \ {"comprehensive"}

----------------------------------------------------------------------------
(* Runs whose progress callback raises at one phase *)

CallbackConfigs == {"start", "generation_done", "complete"}

InitCallback ==
    /\ pc = "ready"
    /\ cb_raises \in CallbackConfigs
    /\ unknown_keys = {}
    /\ FALLBACK_ORDER = DefaultFallbackOrder
    /\ prompt = EmptyText /\ mode = "<None>" /\ mode_arg = "<None>"
    /\ results = <<>> /\ events = <<>>
    /\ stage = "" /\ eng = EngIdle /\ reqs = <<>> /\ improved = EmptyText
    /\ refl = ReflIdle
    /\ attempts = <<>> /\ called = {} /\ raised = NoError /\ retval = NoneVal
    /\ response = NoneVal
    /\ SanIdle /\ GatewayIdle /\ ApiIdle /\ HistoryIdle /\ ScriptsIdle

SpecCallback == InitCallback /\ [][Next]_vars

\* the callback has been called with the phase at which it raises
CallbackHasRaised ==
    \E n \in DOMAIN events : events[n].phase = cb_raises

\* C33: an exception of the progress callback leaves the run as it would be
\* with a callback that does not raise: the exception does not end the run,
\* which goes on to its remaining stages and ends with the results returned
\* or with the error of a failed stage.
C33_Original ==
    /\ raised # CallbackError
    /\ (CallbackHasRaised /\ events[Len(events)].phase = cb_raises) =>
          pc \in {"chat", "returned"}

----------------------------------------------------------------------------
(* The gateway of the GUI: a manager created with app_state.root, whose    *)
(* __init__ starts the periodic check_service_status.  A timed call finds  *)
(* check_interval elapsed since _last_check, which the call before it set  *)
(* ahead of scheduling it (for the first call _last_check is 0).           *)

MaxChecks == 2

\* Variant: the check is scheduled again whatever the flag
RescheduleRegardless(ready) == "due"

\* check_service_status, lines 95-96: root.after(...) unless the flag is set
Reschedule(ready) == IF ready THEN "stopped" ELSE "due"

InitGatewayGui ==
    /\ pc = "gateway"
    /\ ollama_ready = FALSE /\ ollama_module = NoneVal
    /\ ollama_installed \in BOOLEAN
    /\ gw = [t \in Callers |-> GwIdle]
    /\ probes = 0 /\ connected = 0 /\ forwarded = 0
    /\ timer = [pc |-> "due", checks |-> 0]
    /\ PipelineIdle /\ SanIdle /\ ApiIdle /\ HistoryIdle /\ ScriptsIdle

\* check_service_status is called, by __init__ or by the timer: lines 86-90,
\* then the request of the health probe, or lines 95-96 when the flag is set
StatusCheckEnter ==
    /\ pc = "gateway"
    /\ timer.pc = "due" /\ timer.checks < MaxChecks
    /\ IF ollama_ready
       THEN /\ timer' = [pc |-> Reschedule(ollama_ready), checks |-> timer.checks + 1]
            /\ probes' = probes
       ELSE /\ timer' = [pc |-> "probe", checks |-> timer.checks + 1]
            /\ probes' = probes + 1
    /\ UNCHANGED <<ollama_ready, ollama_module, gw, connected, forwarded>>
    /\ UnchangedByGateway

\* The health probe of the periodic check is answered: the rest of
\* initialize_ollama, then lines 92-96
StatusCheckAnswered ==
    /\ pc = "gateway"
    /\ timer.pc = "probe"
    /\ \E answer \in HealthAnswers :
         LET r == initialize_ollama(answer, ollama_module, ollama_installed)
         IN  /\ ollama_module' = r.module
             /\ ollama_ready' = (ollama_ready \/ r.ready)
             /\ connected' = IF r.ok THEN connected + 1 ELSE connected
             /\ timer' = [timer EXCEPT !.pc = Reschedule(ollama_ready')]
    /\ UNCHANGED <<gw, probes, forwarded>>
    /\ UnchangedByGateway

NextGatewayGui == NextGateway \/ StatusCheckEnter \/ StatusCheckAnswered

SpecGatewayGui == InitGatewayGui /\ [][NextGatewayGui]_vars

\* thread t enters chat in this step
Enters(t) == gw[t].pc = "idle" /\ gw'[t].pc # "idle"

\* C34: initialization is done once: the ready flag, once true, stays true;
\* a chat call made while it is true goes to the client library without a
\* health probe; a periodic check made while it is true probes nothing and
\* schedules no further check, and no check is pending once one has found
\* the flag true; while the flag is false every chat call sends a probe.
C34_OneTimeInitialization ==
    /\ [][ollama_ready => ollama_ready']_vars
    /\ [][\A t \in Callers :
            Enters(t) => IF ollama_ready
                         THEN gw'[t].pc = "forward" /\ ~gw'[t].probed /\ probes' = probes
                         ELSE gw'[t].pc = "probe" /\ probes' = probes + 1]_vars
    /\ [][(timer.pc = "due" /\ timer' # timer) =>
            IF ollama_ready THEN timer'.pc = "stopped" /\ probes' = probes
            ELSE timer'.pc = "probe" /\ probes' = probes + 1]_vars
    /\ [][(timer.pc = "probe" /\ timer' # timer) =>
            timer'.pc = IF ollama_ready' THEN "stopped" ELSE "due"]_vars
    /\ [](timer.pc = "stopped" => ollama_ready)
    /\ [][timer.pc = "stopped" => timer' = timer]_vars

\* the first periodic check failed, the second found the service, and a
\* chat call made afterwards is with the client library without a probe
C34_Witness ==
    /\ ollama_ready /\ timer = [pc |-> "stopped", checks |-> 2]
    /\ gw[1].pc = "forward" /\ ~gw[1].probed /\ gw[1].calls = 1
    /\ probes = 2 /\ connected = 1

----------------------------------------------------------------------------
(* Boost mode: the calls of one stage *)

\* a boost stage is waiting for the gateway
InBoostStage == pc = "chat" /\ stage # "" /\ mode = "boost"

\* the gateway fails, or answers, the pending request in this step
BoostCallFails == InBoostStage /\ vars' # vars /\ response' = NoneVal
BoostCallAnswered == InBoostStage /\ vars' # vars /\ response' # NoneVal

\* the stage goes on with one more request in this step
NextRequestSent == pc' = "chat" /\ stage' = stage /\ Len(reqs') = Len(reqs) + 1

ReflectionTemplates == <<"generate", "critique", "improve">>

\* C35: a boost stage sends generate, critique and revise, in this order, to
\* the one boost model; the critique request carries the generated text and
\* the revise request the critique; the revise response is the stage's
\* output.  When one of the three fails the stage sends one plain request
\* with the same prompt text to the same model and its response is the
\* output; when that fails the run fails.  The engine is never entered.
C35_BoostReflection ==
    /\ [](InBoostStage =>
            /\ eng = EngIdle /\ attempts = <<>>
            /\ \A n \in DOMAIN reqs :
                 /\ reqs[n].model = MISTRAL
                 /\ SubSeq(reqs[n].texts, 1, Len(reqs[1].texts)) = reqs[1].texts
            /\ IF refl.plain
               THEN Len(reqs) = 1 /\ reqs[1].template = "plain"
               ELSE /\ Len(reqs) \in 1..3
                    /\ \A n \in DOMAIN reqs : reqs[n].template = ReflectionTemplates[n])
    /\ [][(BoostCallAnswered /\ ~refl.plain /\ Len(reqs) < 3) =>
            /\ NextRequestSent /\ results' = results
            /\ reqs'[Len(reqs')].texts = reqs[Len(reqs)].texts \o <<response'>>
            /\ SubSeq(reqs', 1, Len(reqs)) = reqs]_vars
    /\ [][(BoostCallAnswered /\ (refl.plain \/ Len(reqs) = 3)) =>
            /\ stage \notin DOMAIN results
            /\ results' = (stage :> response') @@ results]_vars
    /\ [][BoostCallFails =>
            IF refl.plain
            THEN pc' = "raised" /\ results' = results
            ELSE /\ pc' = "chat" /\ stage' = stage /\ refl'.plain
                 /\ results' = results
                 /\ reqs' = <<[model |-> MISTRAL, template |-> "plain",
                               texts |-> reqs[1].texts]>>]_vars

\* the revise request of the generation stage failed and the plain request
\* is pending, after the analysis stage took its output from its revise call
C35_Witness ==
    /\ InBoostStage /\ stage = "generation" /\ refl.plain
    /\ DOMAIN results = {"analysis"} /\ results["analysis"] = AnswerText
    /\ reqs = <<[model |-> MISTRAL, template |-> "plain", texts |-> <<AnswerText>>]>>

\* the revise request of the first stage is pending: it carries the
\* generated text and the critique
C35_WitnessRevise ==
    /\ InBoostStage /\ stage = "analysis" /\ ~refl.plain /\ Len(reqs) = 3
    /\ reqs[3].texts = <<prompt, AnswerText, MarkedText>>

----------------------------------------------------------------------------
(* main.py: the button of the GUI calls process_prompt on the main thread; *)
(* every accepted submission starts a run_processing thread.  The threads  *)
(* and the main thread share app_state.is_processing, the loading          *)
(* indicator and the status bar.                                           *)

MaxWorkers == 3
MaxRejected == 2

\* what the user has typed into input_text when a thread reads it
GuiInputs == {EmptyText, BlankText, PlainText}

\* a run_processing thread: where it is, the stages it has completed, how
\* its try block ended
Worker(at, k, how) == [pc |-> at, done |-> k, outcome |-> how]

\* the threads that have been started and have not returned
Alive == {w \in DOMAIN gui.workers : gui.workers[w].pc # "ended"}

InitGui ==
    /\ pc = "gui"
    /\ gui = GuiIdle /\ solver = SolverIdle
    /\ PipelineIdle /\ SanIdle /\ GatewayIdle /\ ApiIdle /\ HistoryIdle

UnchangedByGui ==
    UNCHANGED <<pc, solver, PipelineVars, SanVars, GatewayVars, ApiVars, HistoryVars>>

\* process_prompt, lines 122-127 and 178-180
GuiProcessPrompt ==
    /\ pc = "gui"
    /\ IF gui.is_processing
       THEN /\ gui.last.rejected < MaxRejected
            /\ gui' = [gui EXCEPT !.last = [op |-> "rejected",
                                            rejected |-> gui.last.rejected + 1]]
       ELSE /\ Len(gui.workers) < MaxWorkers
            /\ gui' = [gui EXCEPT !.is_processing = TRUE,
                                  !.workers = Append(@, Worker("started", 0, "")),
                                  !.last = [op |-> "accepted",
                                            rejected |-> gui.last.rejected]]
    /\ UnchangedByGui

\* the finally clause up to its first statement, line 174
FlagReset(g, w, how) ==
    [g EXCEPT !.is_processing = FALSE,
              !.workers[w] = Worker("cleanup", g.workers[w].done, how)]

\* run_processing, lines 130-137: the prompt is read; without one the try
\* block returns
RunProcessingStarts(w) ==
    /\ pc = "gui"
    /\ w \in DOMAIN gui.workers
    /\ gui.workers[w].pc = "started"
    /\ \E typed \in GuiInputs :
         IF ~Truthy(strip(typed))
         THEN gui' = FlagReset(gui, w, "empty")
         ELSE gui' = [gui EXCEPT !.loading = TRUE,
                                 !.workers[w] = Worker("running", 0, "")]
    /\ UnchangedByGui

\* run_processing, lines 139-167: the next stage function returns, and
\* after the last one the run is stored in the history
RunProcessingStageReturns(w) ==
    /\ pc = "gui"
    /\ w \in DOMAIN gui.workers
    /\ gui.workers[w].pc = "running"
    /\ LET k == gui.workers[w].done + 1
       IN  IF k < Len(StandardStages)
           THEN gui' = [gui EXCEPT !.loading = TRUE,
                                   !.workers[w] = Worker("running", k, "")]
           ELSE gui' = FlagReset([gui EXCEPT !.loading = TRUE,
                                             !.stored = @ + 1,
                                             !.workers[w].done = k], w, "success")
    /\ UnchangedByGui

\* run_processing, lines 169-171: the next stage function raises;
\* handle_phase_error stops the loading indicator
RunProcessingStageRaises(w) ==
    /\ pc = "gui"
    /\ w \in DOMAIN gui.workers
    /\ gui.workers[w].pc = "running"
    /\ gui' = FlagReset([gui EXCEPT !.loading = FALSE], w, "error")
    /\ UnchangedByGui

\* the rest of the finally clause, lines 175-176, and the end of the thread
RunProcessingEnds(w) ==
    /\ pc = "gui"
    /\ w \in DOMAIN gui.workers
    /\ gui.workers[w].pc = "cleanup"
    /\ gui' = [gui EXCEPT !.loading = FALSE, !.status = "Ready",
                          !.workers[w].pc = "ended"]
    /\ UnchangedByGui

NextGui ==
    \/ GuiProcessPrompt
    \/ \E w \in 1..MaxWorkers : RunProcessingStarts(w)
    \/ \E w \in 1..MaxWorkers : RunProcessingStageReturns(w)
    \/ \E w \in 1..MaxWorkers : RunProcessingStageRaises(w)
    \/ \E w \in 1..MaxWorkers : RunProcessingEnds(w)

SpecGui == InitGui /\ [][NextGui]_vars

\* process_prompt is called in this step
Submission == pc = "gui" /\ gui'.last # gui.last

\* thread w returns in this step
WorkerEnds(w) ==
    /\ w \in DOMAIN gui.workers
    /\ gui.workers[w].pc # "ended" /\ gui'.workers[w].pc = "ended"

\* C36: at most one run_processing thread is running at any time; a
\* submission made while is_processing is true starts no thread and changes
\* nothing; is_processing is false when a thread has ended, however it
\* ended, and the next submission is accepted.
C36_Original ==
    /\ [](pc = "gui" => Cardinality(Alive) <= 1)
    /\ [][(Submission /\ gui.is_processing) =>
            [gui' EXCEPT !.last = gui.last] = gui]_vars
    /\ [][\A w \in 1..MaxWorkers : WorkerEnds(w) =>
            /\ gui'.workers[w].outcome \in {"success", "error", "empty"}
            /\ ~gui'.is_processing]_vars
    /\ [][(Submission /\ ~gui.is_processing) =>
            Len(gui'.workers) = Len(gui.workers) + 1]_vars

----------------------------------------------------------------------------
(* The index of ProcessingHistory.  Every method that writes takes _lock   *)
(* for its whole body, so the calls of concurrent threads take effect one  *)
(* at a time, in some order: the steps of SpecHistory.                     *)

\* the entries after the current one
RedoEntries == {history[i] : i \in {j \in DOMAIN history : j > current_index + 1}}

\* C37: current_index always lies between -1 and len(history) - 1 and is -1
\* exactly when the history is empty.  After an add the redo entries are
\* gone, the added entry is the last and the current one and can_redo is
\* false; after clear the history is empty and neither can_undo nor can_redo
\* holds.
C37_IndexInvariant ==
    /\ [](/\ -1 <= current_index /\ current_index <= Len(history) - 1
          /\ (current_index = -1) <=> (history = <<>>))
    /\ [][added' = added + 1 =>
            /\ \A e \in RedoEntries : \A i \in DOMAIN history' : history'[i] # e
            /\ history' # <<>>
            /\ history'[current_index' + 1].timestamp = added'
            /\ current_index' = Len(history') - 1
            /\ ~can_redo(current_index', history')]_vars
    /\ [](last_call.op = "clear" =>
            /\ history = <<>>
            /\ ~can_undo(current_index) /\ ~can_redo(current_index, history))

\* an add made after two undos has dropped the second and the third entry
C37_Witness ==
    /\ last_call.op = "add" /\ last_call.after = "undo" /\ last_call.was = 0
    /\ added = 4 /\ Len(history) = 2 /\ current_index = 1
    /\ history[1].timestamp = 1 /\ history[2].timestamp = 4

\* a history of three entries has been cleared
C37_WitnessClear ==
    /\ last_call.op = "clear" /\ last_call.was = 2 /\ added = 3
    /\ history = <<>> /\ current_index = -1

----------------------------------------------------------------------------
(* PROBLEM SOLVER BOT/problemsolved.py: solve_problem.  The model's answer *)
(* and what the user types are the inputs of each step.                    *)

MaxSolverRetries == 3
MaxSubProblems == 2
MaxSolves == 2

\* line 24: the length under which a response is weak
MinSolutionChars == 50

\* what ollama.generate does: it raises, or returns a response of some
\* length that may hold "what" or "sorry"
ModelAnswers ==
    [raises : {TRUE}, chars : {0}, what : {FALSE}, sorry : {FALSE}] \cup
    [raises : {FALSE}, chars : {0, MinSolutionChars - 1, MinSolutionChars},
     what : BOOLEAN, sorry : BOOLEAN]

\* the solution proposed for sub-problem s (0: the problem itself); the
\* empty string
Solution(s) == [sub |-> s, empty |-> FALSE]
NoSolution == [sub |-> 0, empty |-> TRUE]

\* get_solution, lines 13-31
get_solution(answer, s) ==
    IF answer.raises THEN NoSolution
    ELSE IF answer.chars < MinSolutionChars \/ answer.what \/ answer.sorry
         THEN NoSolution
         ELSE Solution(s)

\* combine_solutions, lines 78-82: the one solution, or one "Step i" line
\* for each
combine_solutions(sols) ==
    IF Len(sols) = 1 THEN <<[step |-> 0, sol |-> sols[1]]>>
    ELSE [i \in 1..Len(sols) |-> [step |-> i, sol |-> sols[i]]]

\* the values solve_problem returns
Solved(t) == [kind |-> "solution", text |-> t, sub |-> 0]
CouldntSolve(s) == [kind |-> "couldnt", text |-> <<>>, sub |-> s]
NotMet == [kind |-> "unmet", text |-> <<>>, sub |-> 0]

\* the problem typed by the user
TheProblem == PlainText

InitSolver ==
    /\ pc = "solver"
    /\ solver = SolverIdle /\ gui = GuiIdle
    /\ PipelineIdle /\ SanIdle /\ GatewayIdle /\ ApiIdle /\ HistoryIdle

UnchangedBySolver ==
    UNCHANGED <<pc, gui, PipelineVars, SanVars, GatewayVars, ApiVars, HistoryVars>>

\* lines 115-121 and 144-146: the for loop goes to the next sub-problem, or
\* ends and the combined solution is shown for validation
NextSubProblem(sv) ==
    IF sv.idx < sv.subs
    THEN [sv EXCEPT !.idx = @ + 1, !.attempts = 0]
    ELSE [sv EXCEPT !.pc = "final", !.offered = combine_solutions(sv.solutions)]

\* lines 123-127 and 121: no solution; the attempt is counted and the loop
\* condition is evaluated again
AfterWeak(sv) ==
    IF sv.attempts + 1 < sv.max_retries
    THEN [sv EXCEPT !.attempts = @ + 1]
    ELSE NextSubProblem([sv EXCEPT !.attempts = @ + 1])

\* solve_problem is called, lines 84-113: cache, direct solution,
\* decomposition into n sub-problems
SolveProblem ==
    /\ pc = "solver"
    /\ solver.pc \in {"idle", "returned"} /\ solver.calls < MaxSolves
    /\ \E retries \in 1..MaxSolverRetries, answer \in ModelAnswers,
          yes \in BOOLEAN, n \in 1..MaxSubProblems :
         LET sv     == [SolverIdle EXCEPT !.cache = solver.cache,
                                          !.validated = solver.validated,
                                          !.calls = solver.calls + 1,
                                          !.max_retries = retries]
             hit    == {c \in solver.cache : c.problem = TheProblem}
             direct == get_solution(answer, 0)
             shown1 == <<[step |-> 0, sol |-> direct]>>
         IN  IF hit # {}
             THEN solver' = [sv EXCEPT !.pc = "returned",
                                       !.ret = Solved((CHOOSE c \in hit : TRUE).text)]
             ELSE IF ~direct.empty /\ yes
             THEN solver' = [sv EXCEPT !.pc = "returned", !.ret = Solved(shown1),
                                       !.validated = @ \cup {shown1},
                                       !.cache = @ \cup {[problem |-> TheProblem,
                                                          text |-> shown1]}]
             ELSE solver' = [sv EXCEPT !.pc = "sub", !.subs = n, !.idx = 1]
    /\ UnchangedBySolver

\* one turn of the while loop, lines 121-141
SolveSubProblem ==
    /\ pc = "solver"
    /\ solver.pc = "sub" /\ solver.attempts < solver.max_retries
    /\ \E answer \in ModelAnswers, yes \in BOOLEAN :
         LET solution == get_solution(answer, solver.idx)
         IN  IF solution.empty
             THEN solver' = AfterWeak(solver)
             ELSE IF yes
             THEN solver' = NextSubProblem(
                     [solver EXCEPT !.solutions = Append(@, solution),
                                    !.validated = @ \cup {<<[step |-> 0, sol |-> solution]>>}])
             ELSE IF solver.attempts + 1 >= solver.max_retries
             THEN solver' = [solver EXCEPT !.attempts = @ + 1, !.pc = "returned",
                                           !.ret = CouldntSolve(solver.idx)]
             ELSE solver' = [solver EXCEPT !.attempts = @ + 1]
    /\ UnchangedBySolver

\* lines 146-150: the user validates the combined solution, or not
ValidateCombined ==
    /\ pc = "solver"
    /\ solver.pc = "final"
    /\ \E yes \in BOOLEAN :
         IF yes
         THEN solver' = [solver EXCEPT !.pc = "returned", !.ret = Solved(solver.offered),
                                       !.validated = @ \cup {solver.offered},
                                       !.cache = @ \cup {[problem |-> TheProblem,
                                                          text |-> solver.offered]}]
         ELSE solver' = [solver EXCEPT !.pc = "returned", !.ret = NotMet]
    /\ UnchangedBySolver

NextSolver == SolveProblem \/ SolveSubProblem \/ ValidateCombined

SpecSolver == InitSolver /\ [][NextSolver]_vars

\* the sub-problem in hand has used its last attempt in this step without a
\* solution being accepted
OutOfAttempts ==
    /\ solver.pc = "sub"
    /\ solver'.solutions = solver.solutions
    /\ solver.attempts + 1 = solver.max_retries
    /\ solver' # solver

\* C38: the combined solution offered for validation holds one validated
\* solution for each sub-problem, in order; a sub-problem that uses up its
\* attempts without an accepted solution, weak responses counted, ends the
\* call with the "couldn't solve" message; what the cache holds has been
\* validated by the user.
C38_Original ==
    /\ [](solver.pc = "final" =>
            /\ Len(solver.offered) = solver.subs
            /\ \A i \in DOMAIN solver.offered :
                 /\ solver.offered[i].sol = Solution(i)
                 /\ <<[step |-> 0, sol |-> solver.offered[i].sol]>> \in solver.validated)
    /\ [][OutOfAttempts =>
            solver'.pc = "returned" /\ solver'.ret = CouldntSolve(solver.idx)]_vars
    /\ [](\A c \in solver.cache : c.text \in solver.validated)

====
